---------------------------- MODULE Spec2Model ----------------------------
(***************************************************************************)
(* A model of the Stone interpreter (Ryooooooga/stone): the environment    *)
(* chain, the runtime objects, the tree-walking evaluator as a machine     *)
(* with an explicit call stack, and the precedence-climbing expression     *)
(* parser.                                                                 *)
(***************************************************************************)
EXTENDS Integers, Sequences, FiniteSets, TLC

VARIABLES
    prog,       \* descriptor of the program given to Interpreter::evaluate
    stack,      \* the C++ call stack of the evaluator: one frame per activation
    ret,        \* the value returned by the activation that finished last
    status,     \* "running", "done", "error" (EvaluateException), "crash", "corrupt"
    result,     \* the value Interpreter::evaluate(ProgramNode) returned
    envs,       \* every Environment ever made: [parent, table]
    heap,       \* every function / class / instance / array / native object
    output,     \* what the host function print has printed, in order
    bodyLog,    \* history: each class body dispatched by ClassObject::getMember
    lastOp,     \* history: the Environment operation applied last (EnvSpec)
    tokens,     \* the tokens the lexer has returned / the parser is given
    ast,        \* the parser's result for tokens
    m_source,   \* Lexer::m_source, a sequence of one-character strings
    m_pos,      \* Lexer::m_pos, counted from 0
    m_line,     \* Lexer::m_line
    m_queue,    \* TokenStream::m_queue
    lastPeek    \* history: the last call of TokenStream::peek and its token

vars == <<prog, stack, ret, status, result, envs, heap, output, bodyLog,
          lastOp, tokens, ast, m_source, m_pos, m_line, m_queue, lastPeek>>

lexer == <<m_source, m_pos, m_line>>
stream == <<m_queue, lastPeek>>

-----------------------------------------------------------------------------
(* Bounds of the model. *)

\* Depth of the evaluator's call stack; a deeper recursion exhausts the stack.
MaxStack == 24
\* Longest sequence of closure calls of the counter programs.
MaxCalls == 5
\* Number of frames of the environment configurations of EnvSpec.
MaxFrames == 3
\* Longest class chain C0 <- C1 <- ... of the inheritance programs.
MaxChain == 3
\* Most iterations of the counting loops.
MaxIterations == 3
\* Longest source text of LexerSpec.
MaxSource == 3
\* Calls of Lexer::read after the one that returned end-of-file.
MaxRepeat == 2
\* Longest token sequence of StatementSpec.
MaxTokens == 5
\* Largest position given to TokenStream::peek.
MaxPeek == 2

-----------------------------------------------------------------------------
(* Runtime values: std::shared_ptr<StoneObject>.  Integers and strings are *)
(* kept by value, every other object lives in heap and is named by its     *)
(* index, which is its identity.                                           *)

Null == [t |-> "null", i |-> 0, s |-> <<>>]
IntegerObject(n) == [t |-> "int", i |-> n, s |-> <<>>]
StringObject(cs) == [t |-> "str", i |-> 0, s |-> cs]
Ref(h) == [t |-> "ref", i |-> h, s |-> <<>>]

NoNode == [kind |-> "None"]

HeapObject(type) ==
    [type |-> type, name |-> "", params |-> <<>>, body |-> NoNode, env |-> 0,
     super |-> 0, elems |-> <<>>]

StoneFunctionObject(params, body, env) ==
    [HeapObject("function") EXCEPT !.params = params, !.body = body, !.env = env]

ClassObject(name, body, env, super) ==
    [HeapObject("class") EXCEPT !.name = name, !.body = body, !.env = env,
                                !.super = super]

InstanceObject(env) == [HeapObject("instance") EXCEPT !.env = env]

ArrayObject(elems) == [HeapObject("array") EXCEPT !.elems = elems]

\* NativeFunctionObject<Return, Parameters...>: params holds one name per parameter.
NativeFunctionObject(name, params) ==
    [HeapObject("native") EXCEPT !.name = name, !.params = params]

TypeOf(v, hp) ==
    IF v.t = "ref" THEN hp[v.i].type ELSE v.t

IsInteger(v) == v.t = "int"
IsString(v) == v.t = "str"

-----------------------------------------------------------------------------
(* std::to_string(int). *)

Digit(d) == <<"0", "1", "2", "3", "4", "5", "6", "7", "8", "9">>[d + 1]

RECURSIVE NatToString(_)
NatToString(n) ==
    IF n < 10 THEN <<Digit(n)>> ELSE NatToString(n \div 10) \o <<Digit(n % 10)>>

IntToString(n) == IF n < 0 THEN <<"-">> \o NatToString(0 - n) ELSE NatToString(n)

(* asString(): [st, s] with st "ok", "error" (the default throws) or       *)
(* "undefined" (a null element of an array is dereferenced).               *)
RECURSIVE AsString(_, _)
RECURSIVE ArrayAsString(_, _, _, _)
ArrayAsString(elems, k, acc, hp) ==
    IF k > Len(elems) THEN [st |-> "ok", s |-> acc \o <<"]">>]
    ELSE LET e == AsString(elems[k], hp)
             delim == IF k = 1 THEN <<"[">> ELSE <<",", " ">>
         IN IF e.st # "ok" THEN e
            ELSE ArrayAsString(elems, k + 1, acc \o delim \o e.s, hp)

AsString(v, hp) ==
    CASE v.t = "null" -> [st |-> "undefined", s |-> <<>>]
      [] v.t = "int" -> [st |-> "ok", s |-> IntToString(v.i)]
      [] v.t = "str" -> [st |-> "ok", s |-> v.s]
      [] OTHER ->
           CASE hp[v.i].type = "class" ->
                  [st |-> "ok", s |-> <<"[class ", hp[v.i].name, "]">>]
             [] hp[v.i].type = "array" ->
                  ArrayAsString(hp[v.i].elems, 1, <<>>, hp)
             [] OTHER -> [st |-> "error", s |-> <<>>]

\* asInteger(): "ok" for an IntegerObject, "undefined" through a null
\* pointer, "error" (the default throws) for every other object.
AsIntegerStatus(v) ==
    CASE v.t = "int" -> "ok"
      [] v.t = "null" -> "undefined"
      [] OTHER -> "error"

-----------------------------------------------------------------------------
(* Environment: a parent pointer (0 is nullptr) and a table.               *)

EmptyTable == [n \in {} |-> Null]

Environment(parent) == [parent |-> parent, table |-> EmptyTable]

Binds(e, name) == name \in DOMAIN e.table

TablePut(table, name, value) ==
    [n \in (DOMAIN table) \cup {name} |-> IF n = name THEN value ELSE table[n]]

\* The loop of Environment::set: the first frame from f along m_parent whose
\* table has name, 0 when the walk ends at nullptr.
RECURSIVE SetWalk(_, _, _)
SetWalk(es, env, name) ==
    IF env = 0 THEN 0
    ELSE IF Binds(es[env], name) THEN env
    ELSE SetWalk(es, es[env].parent, name)

EnvPutNearest(es, f, name, value) ==
    LET env == SetWalk(es, f, name)
        g == IF env # 0 THEN env ELSE f
    IN [es EXCEPT ![g].table = TablePut(es[g].table, name, value)]

\* Environment::put on frame f.
EnvPut(es, f, name, value) ==
    [es EXCEPT ![f].table = TablePut(es[f].table, name, value)]

EnvSetPutOnly(es, f, name, value) == EnvPut(es, f, name, value)

\* Environment::set on frame f.
EnvSet(es, f, name, value) ==
    LET env == SetWalk(es, f, name)
    IN IF env # 0 THEN EnvPut(es, env, name, value)
       ELSE EnvPut(es, f, name, value)

\* Environment::get on frame f.
RECURSIVE EnvGet(_, _, _, _)
EnvGet(es, f, name, recursive) ==
    IF Binds(es[f], name) THEN es[f].table[name]
    ELSE IF recursive /\ es[f].parent # 0 THEN EnvGet(es, es[f].parent, name, TRUE)
    ELSE Null

-----------------------------------------------------------------------------
(* AST nodes. *)

ProgramNode(children) == [kind |-> "Program", children |-> children]
IfStatementNode(c, t, o) ==
    [kind |-> "If", condition |-> c, then |-> t, otherwise |-> o]
WhileStatementNode(c, b) == [kind |-> "While", condition |-> c, body |-> b]
CompoundStatementNode(children) == [kind |-> "Compound", children |-> children]
ProcedureStatementNode(name, params, body) ==
    [kind |-> "Procedure", name |-> name, parameters |-> params, body |-> body]
\* superName is <<>> (std::nullopt) or <<name>>.
ClassStatementNode(name, superName, body) ==
    [kind |-> "Class", name |-> name, superName |-> superName, body |-> body]
BinaryExpressionNode(op, l, r) ==
    [kind |-> "Binary", operation |-> op, left |-> l, right |-> r]
UnaryExpressionNode(op, operand) ==
    [kind |-> "Unary", operation |-> op, operand |-> operand]
CallExpressionNode(callee, args) ==
    [kind |-> "Call", callee |-> callee, arguments |-> args]
ArrayIndexExpressionNode(operand, index) ==
    [kind |-> "ArrayIndex", operand |-> operand, index |-> index]
MemberAccessExpressionNode(operand, member) ==
    [kind |-> "MemberAccess", operand |-> operand, memberName |-> member]
ClosureExpressionNode(params, body) ==
    [kind |-> "Closure", parameters |-> params, body |-> body]
ArrayExpressionNode(children) == [kind |-> "Array", children |-> children]
IdentifierExpressionNode(name) == [kind |-> "Identifier", name |-> name]
IntegerExpressionNode(value) == [kind |-> "Integer", value |-> value]
StringExpressionNode(value) == [kind |-> "String", value |-> value]

-----------------------------------------------------------------------------
(* The parser (Parser.hpp) as functions of a token sequence and a position. *)
(* A result is [ok, node, pos]: ok is FALSE where the code throws           *)
(* ParseException, pos is the position of the next unread token.            *)

\* Token's constructors (Token.hpp); a token made by hand is on line 1.
LexerToken(kind, text, lineNumber, integer, string) ==
    [kind |-> kind, text |-> text, lineNumber |-> lineNumber,
     integerValue |-> integer, stringValue |-> string]
Token(kind, text) == LexerToken(kind, text, 1, 0, <<>>)
IntegerToken(n) == LexerToken("integer", "", 1, n, <<>>)
StringToken(cs) == LexerToken("string", "", 1, 0, cs)
Punctuator(kind) == Token(kind, "")
IdentifierToken(name) == Token("identifier", name)

\* ---- The lexer (Lexer.hpp) ----
\* The source text is a sequence of one-character strings; positions count
\* from 0 as m_pos does.  Nul stands for the '\0' that m_source[size()] is.

Nul == "NUL"

\* int is 32 bits wide.
IntMax == 2147483647

\* isSpace, isDigit, isLetter, isLetterOrDigit.
SpaceChars == {" ", "\t", "\r"}
DigitChars == <<"0", "1", "2", "3", "4", "5", "6", "7", "8", "9">>
Digits == {DigitChars[i] : i \in 1..Len(DigitChars)}
Letters ==
    {"A", "B", "C", "D", "E", "F", "G", "H", "I", "J", "K", "L", "M", "N",
     "O", "P", "Q", "R", "S", "T", "U", "V", "W", "X", "Y", "Z", "_", "a",
     "b", "c", "d", "e", "f", "g", "h", "i", "j", "k", "l", "m", "n", "o",
     "p", "q", "r", "s", "t", "u", "v", "w", "x", "y", "z"}
LettersOrDigits == Letters \cup Digits

\* m_source[pos] for pos <= size(); a larger pos is outside the string.
CharAt(source, pos) == IF pos < Len(source) THEN source[pos + 1] ELSE Nul

\* m_source.compare(pos, text.size(), text) == 0
StartsWith(source, pos, text) ==
    /\ pos + Len(text) <= Len(source)
    /\ \A i \in 1..Len(text) : source[pos + i] = text[i]

\* while (cond(m_source[m_pos])) m_pos++ for a class of characters.
RECURSIVE ScanWhile(_, _, _)
ScanWhile(source, pos, class) ==
    IF CharAt(source, pos) \in class THEN ScanWhile(source, pos + 1, class) ELSE pos

\* The position SkipComment gives when the loop has left the string.
OutOfBounds == -1

\* while (m_source[m_pos] != '\n') m_pos++: the loop tests for '\n' only, so
\* on a comment that no '\n' follows it steps over the terminator and reads
\* m_source[pos] for pos > size().
RECURSIVE SkipComment(_, _)
SkipComment(source, pos) ==
    IF pos > Len(source) THEN OutOfBounds
    ELSE IF CharAt(source, pos) = "\n" THEN pos
    ELSE SkipComment(source, pos + 1)

\* m_source.substr(start, pos - start) as a string.
RECURSIVE Substr(_, _, _)
Substr(source, start, pos) ==
    IF start >= pos THEN "" ELSE source[start + 1] \o Substr(source, start + 1, pos)

\* The keywords of Token.def.hpp; any other word is an identifier.
Keywords == {"if", "else", "while", "def", "fun", "return"}
KeywordKind(text) == IF text \in Keywords THEN "keyword_" \o text ELSE "identifier"

DigitValue(c) == (CHOOSE i \in 1..Len(DigitChars) : DigitChars[i] = c) - 1

\* std::stoi of the digits source[start..pos-1] after the value so far; -1
\* where the value does not fit int and stoi throws std::out_of_range.
RECURSIVE Stoi(_, _, _, _)
Stoi(source, start, pos, value) ==
    IF start >= pos THEN value
    ELSE LET d == DigitValue(source[start + 1])
         IN IF value > (IntMax - d) \div 10 THEN -1
            ELSE Stoi(source, start + 1, pos, value * 10 + d)

\* The punctuators of Token.def.hpp in the order of the flat_map, which
\* std::greater<> sorts by descending text.
Punctuators ==
    <<[text |-> <<"}">>, kind |-> "rightBrace"],
      [text |-> <<"{">>, kind |-> "leftBrace"],
      [text |-> <<">", "=">>, kind |-> "greaterEqual"],
      [text |-> <<">">>, kind |-> "greaterThan"],
      [text |-> <<"=", "=">>, kind |-> "equal"],
      [text |-> <<"=">>, kind |-> "assign"],
      [text |-> <<"<", "=">>, kind |-> "lesserEqual"],
      [text |-> <<"<">>, kind |-> "lesserThan"],
      [text |-> <<";">>, kind |-> "semicolon"],
      [text |-> <<"/">>, kind |-> "slash"],
      [text |-> <<".">>, kind |-> "period"],
      [text |-> <<"-">>, kind |-> "minus"],
      [text |-> <<",">>, kind |-> "comma"],
      [text |-> <<"+">>, kind |-> "plus"],
      [text |-> <<"*">>, kind |-> "star"],
      [text |-> <<")">>, kind |-> "rightParen"],
      [text |-> <<"(">>, kind |-> "leftParen"],
      [text |-> <<"%">>, kind |-> "percent"],
      [text |-> <<"!", "=">>, kind |-> "notEqual"]>>

\* A faulty MatchPunctuator: the last entry, from i on, that matches.
RECURSIVE MatchLastPunctuator(_, _, _)
MatchLastPunctuator(source, pos, i) ==
    IF i > Len(Punctuators) THEN 0
    ELSE LET later == MatchLastPunctuator(source, pos, i + 1)
         IN IF later # 0 THEN later
            ELSE IF StartsWith(source, pos, Punctuators[i].text) THEN i
            ELSE 0

\* for (const auto& [text, kind] : punctuators): the first entry that
\* matches at pos, 0 where none does.
RECURSIVE MatchPunctuator(_, _, _)
MatchPunctuator(source, pos, i) ==
    IF i > Len(Punctuators) THEN 0
    ELSE IF StartsWith(source, pos, Punctuators[i].text) THEN i
    ELSE MatchPunctuator(source, pos, i + 1)

NoToken == LexerToken("unknown", "", 0, 0, <<>>)

LineAfterIncrement(line) == line

\* m_line - 1 after m_line++: the line the '\n' ends.
LineBeforeIncrement(line) == line - 1

\* What one call of read() does: st is "ok" (token returned), "error"
\* (ParseException), "outOfRange" (std::out_of_range of stoi) or "undefined"
\* (a read outside m_source); pos and line are m_pos and m_line afterwards.
ReadResult(st, token, pos, line) ==
    [st |-> st, token |-> token, pos |-> pos, line |-> line]

\* Lexer::read
Read(source, pos, line) ==
    LET spaces == ScanWhile(source, pos, SpaceChars)
        start == IF StartsWith(source, spaces, <<"/", "/">>)
                 THEN SkipComment(source, spaces + 2)
                 ELSE spaces
    IN IF start = OutOfBounds
       THEN ReadResult("undefined", NoToken, Len(source) + 1, line)
       ELSE LET c == CharAt(source, start)
                word == ScanWhile(source, start, LettersOrDigits)
                number == ScanWhile(source, start, Digits)
                value == Stoi(source, start, number, 0)
                punctuator == MatchPunctuator(source, start, 1)
            IN IF c = Nul
               THEN ReadResult("ok", LexerToken("endOfFile", "[EOF]", line, 0, <<>>),
                               start, line)
               ELSE IF c = "\n"
               THEN ReadResult("ok",
                               LexerToken("endOfLine", "[EOL]",
                                          LineBeforeIncrement(line + 1), 0, <<>>),
                               start + 1, line + 1)
               ELSE IF c \in Letters
               THEN ReadResult("ok",
                               LexerToken(KeywordKind(Substr(source, start, word)),
                                          Substr(source, start, word), line, 0, <<>>),
                               word, line)
               ELSE IF c \in Digits
               THEN IF value < 0
                    THEN ReadResult("outOfRange", NoToken, number, line)
                    ELSE ReadResult("ok",
                                    LexerToken("integer", Substr(source, start, number),
                                               line, value, <<>>),
                                    number, line)
               ELSE IF punctuator # 0
               THEN ReadResult("ok",
                               LexerToken(Punctuators[punctuator].kind,
                                          Substr(source, start,
                                                 start + Len(Punctuators[punctuator].text)),
                                          line, 0, <<>>),
                               start + Len(Punctuators[punctuator].text), line)
               ELSE ReadResult("error", NoToken, start + 1, line)

\* ---- The token stream (TokenStream.hpp) ----

\* No call of peek yet.
NoPeek == [position |-> 0, reads |-> 0, token |-> NoToken]

\* A faulty PopFront: the newest token leaves the queue.
PopBack(queue) == SubSeq(queue, 1, Len(queue) - 1)

\* m_queue.pop_front()
PopFront(queue) == Tail(queue)

\* TokenStream::fillQueue(amount) on a queue and a lexer at pos, line: the
\* queue and the lexer afterwards, st as in Read for the call that failed.
RECURSIVE FillQueueTo(_, _, _, _, _)
FillQueueTo(source, queue, pos, line, amount) ==
    IF Len(queue) >= amount
    THEN [st |-> "ok", queue |-> queue, pos |-> pos, line |-> line]
    ELSE LET token == Read(source, pos, line)
         IN IF token.st # "ok"
            THEN [st |-> token.st, queue |-> queue, pos |-> token.pos,
                  line |-> token.line]
            ELSE FillQueueTo(source, Append(queue, token.token), token.pos,
                             token.line, amount)

\* peekToken: past the last token the stream yields endOfFile for ever.
PeekToken(toks, pos) ==
    IF pos <= Len(toks) THEN toks[pos] ELSE Token("endOfFile", "")

Parsed(node, pos) == [ok |-> TRUE, node |-> node, pos |-> pos]
ParseException(pos) == [ok |-> FALSE, node |-> NoNode, pos |-> pos]

AddChildAlways(children, node) == Append(children, node)

\* addChild under `if (auto statement = ...)`: nullptr adds no child.
AddChild(children, node) ==
    IF node = NoNode THEN children ELSE Append(children, node)

Separators == {"endOfLine", "semicolon"}

BinaryOperatorFlat(kind) ==
    CASE kind = "star" -> [operation |-> "multiplication", prec |-> 2, assoc |-> FALSE]
      [] kind = "slash" -> [operation |-> "division", prec |-> 2, assoc |-> FALSE]
      [] kind = "percent" -> [operation |-> "modulo", prec |-> 2, assoc |-> FALSE]
      [] kind = "plus" -> [operation |-> "addition", prec |-> 2, assoc |-> FALSE]
      [] kind = "minus" -> [operation |-> "subtraction", prec |-> 2, assoc |-> FALSE]
      [] kind = "lesserThan" -> [operation |-> "lesserThan", prec |-> 2, assoc |-> FALSE]
      [] kind = "lesserEqual" -> [operation |-> "lesserEqual", prec |-> 2, assoc |-> FALSE]
      [] kind = "greaterThan" -> [operation |-> "greaterThan", prec |-> 2, assoc |-> FALSE]
      [] kind = "greaterEqual" -> [operation |-> "greaterEqual", prec |-> 2, assoc |-> FALSE]
      [] kind = "equal" -> [operation |-> "equal", prec |-> 2, assoc |-> FALSE]
      [] kind = "notEqual" -> [operation |-> "notEqual", prec |-> 2, assoc |-> FALSE]
      [] kind = "assign" -> [operation |-> "assign", prec |-> 1, assoc |-> TRUE]
      [] OTHER -> [operation |-> "none", prec |-> -1, assoc |-> FALSE]

\* The table of parseBinaryExpression: operation, precedence, right-assoc.
BinaryOperatorOf(kind) ==
    CASE kind = "star" -> [operation |-> "multiplication", prec |-> 5, assoc |-> FALSE]
      [] kind = "slash" -> [operation |-> "division", prec |-> 5, assoc |-> FALSE]
      [] kind = "percent" -> [operation |-> "modulo", prec |-> 5, assoc |-> FALSE]
      [] kind = "plus" -> [operation |-> "addition", prec |-> 4, assoc |-> FALSE]
      [] kind = "minus" -> [operation |-> "subtraction", prec |-> 4, assoc |-> FALSE]
      [] kind = "lesserThan" -> [operation |-> "lesserThan", prec |-> 3, assoc |-> FALSE]
      [] kind = "lesserEqual" -> [operation |-> "lesserEqual", prec |-> 3, assoc |-> FALSE]
      [] kind = "greaterThan" -> [operation |-> "greaterThan", prec |-> 3, assoc |-> FALSE]
      [] kind = "greaterEqual" -> [operation |-> "greaterEqual", prec |-> 3, assoc |-> FALSE]
      [] kind = "equal" -> [operation |-> "equal", prec |-> 2, assoc |-> FALSE]
      [] kind = "notEqual" -> [operation |-> "notEqual", prec |-> 2, assoc |-> FALSE]
      [] kind = "assign" -> [operation |-> "assign", prec |-> 1, assoc |-> TRUE]
      [] OTHER -> [operation |-> "none", prec |-> -1, assoc |-> FALSE]

RightHandLevelSame(prec, assoc) == prec

\* The minLevel of the right-hand side: prec + (assoc ? 0 : 1).
RightHandLevel(prec, assoc) == prec + (IF assoc THEN 0 ELSE 1)

\* A call of one parse function by another.
RECURSIVE Parse(_, _, _)

ParseExpression(toks, pos) == Parse("ParseBinaryExpression", toks, <<pos, 0>>)

ParameterLoop(toks, params, pos) ==
    IF PeekToken(toks, pos).kind = "comma"
    THEN IF PeekToken(toks, pos + 1).kind = "identifier"
         THEN Parse("ParameterLoop", toks, <<Append(params, PeekToken(toks, pos + 1).text), pos + 2>>)
         ELSE ParseException(pos + 1)
    ELSE IF PeekToken(toks, pos).kind = "rightParen" THEN Parsed(params, pos + 1)
    ELSE ParseException(pos)

ParseParameterList(toks, pos) ==
    IF PeekToken(toks, pos).kind # "leftParen" THEN ParseException(pos)
    ELSE IF PeekToken(toks, pos + 1).kind = "rightParen" THEN Parsed(<<>>, pos + 2)
    ELSE IF PeekToken(toks, pos + 1).kind = "identifier"
    THEN Parse("ParameterLoop", toks, <<<<PeekToken(toks, pos + 1).text>>, pos + 2>>)
    ELSE ParseException(pos + 1)

ParseProcedureStatement(toks, pos) ==
    IF PeekToken(toks, pos + 1).kind # "identifier" THEN ParseException(pos + 1)
    ELSE LET parameters == Parse("ParseParameterList", toks, <<pos + 2>>)
         IN IF ~parameters.ok THEN parameters
            ELSE LET body == Parse("ParseCompoundStatement", toks, <<parameters.pos>>)
                 IN IF ~body.ok THEN body
                    ELSE Parsed(ProcedureStatementNode(PeekToken(toks, pos + 1).text,
                                                       parameters.node, body.node),
                                body.pos)

ParseClassStatement(toks, pos) ==
    IF PeekToken(toks, pos + 1).kind # "identifier" THEN ParseException(pos + 1)
    ELSE LET extends == PeekToken(toks, pos + 2).kind = "keyword_extends"
         IN IF extends /\ PeekToken(toks, pos + 3).kind # "identifier"
            THEN ParseException(pos + 3)
            ELSE LET body == Parse("ParseCompoundStatement", toks, <<IF extends THEN pos + 4 ELSE pos + 2>>)
                 IN IF ~body.ok THEN body
                    ELSE Parsed(ClassStatementNode(
                                    PeekToken(toks, pos + 1).text,
                                    IF extends THEN <<PeekToken(toks, pos + 3).text>>
                                               ELSE <<>>,
                                    body.node),
                                body.pos)

ParseIfStatement(toks, pos) ==
    LET condition == Parse("ParseExpression", toks, <<pos + 1>>)
    IN IF ~condition.ok THEN condition
       ELSE LET then == Parse("ParseCompoundStatement", toks, <<condition.pos>>)
            IN IF ~then.ok THEN then
               ELSE IF PeekToken(toks, then.pos).kind # "keyword_else"
               THEN Parsed(IfStatementNode(condition.node, then.node, NoNode),
                           then.pos)
               ELSE LET otherwise ==
                            IF PeekToken(toks, then.pos + 1).kind = "keyword_if"
                            THEN Parse("ParseIfStatement", toks, <<then.pos + 1>>)
                            ELSE Parse("ParseCompoundStatement", toks, <<then.pos + 1>>)
                    IN IF ~otherwise.ok THEN otherwise
                       ELSE Parsed(IfStatementNode(condition.node, then.node,
                                                   otherwise.node),
                                   otherwise.pos)

ParseWhileStatement(toks, pos) ==
    LET condition == Parse("ParseExpression", toks, <<pos + 1>>)
    IN IF ~condition.ok THEN condition
       ELSE LET body == Parse("ParseCompoundStatement", toks, <<condition.pos>>)
            IN IF ~body.ok THEN body
               ELSE Parsed(WhileStatementNode(condition.node, body.node), body.pos)

CompoundLoop(toks, children, pos) ==
    IF PeekToken(toks, pos).kind = "rightBrace"
    THEN Parsed(CompoundStatementNode(children), pos + 1)
    ELSE IF PeekToken(toks, pos).kind \in Separators
    THEN LET statement == Parse("ParseStatement", toks, <<pos + 1>>)
         IN IF ~statement.ok THEN statement
            ELSE Parse("CompoundLoop", toks, <<AddChild(children, statement.node), statement.pos>>)
    ELSE ParseException(pos)

ParseCompoundStatement(toks, pos) ==
    IF PeekToken(toks, pos).kind # "leftBrace" THEN ParseException(pos)
    ELSE LET statement == Parse("ParseStatement", toks, <<pos + 1>>)
         IN IF ~statement.ok THEN statement
            ELSE Parse("CompoundLoop", toks, <<AddChild(<<>>, statement.node), statement.pos>>)

ParseStatement(toks, pos) ==
    LET kind == PeekToken(toks, pos).kind
    IN CASE kind = "keyword_def" -> Parse("ParseProcedureStatement", toks, <<pos>>)
         [] kind = "keyword_if" -> Parse("ParseIfStatement", toks, <<pos>>)
         [] kind = "keyword_while" -> Parse("ParseWhileStatement", toks, <<pos>>)
         [] kind = "leftBrace" -> Parse("ParseCompoundStatement", toks, <<pos>>)
         [] kind \in {"endOfFile", "endOfLine", "semicolon", "rightBrace"} ->
                Parsed(NoNode, pos)
         [] OTHER -> Parse("ParseExpression", toks, <<pos>>)

ParseTopLevelStatement(toks, pos) ==
    IF PeekToken(toks, pos).kind = "keyword_class"
    THEN Parse("ParseClassStatement", toks, <<pos>>)
    ELSE Parse("ParseStatement", toks, <<pos>>)

ProgramLoop(toks, children, pos) ==
    IF PeekToken(toks, pos).kind = "endOfFile"
    THEN Parsed(ProgramNode(children), pos)
    ELSE IF PeekToken(toks, pos).kind \in Separators
    THEN LET statement == Parse("ParseTopLevelStatement", toks, <<pos + 1>>)
         IN IF ~statement.ok THEN statement
            ELSE Parse("ProgramLoop", toks, <<AddChild(children, statement.node), statement.pos>>)
    ELSE ParseException(pos)

BinaryLoop(toks, left, pos, minLevel) ==
    LET info == BinaryOperatorOf(PeekToken(toks, pos).kind)
    IN IF info.prec < minLevel THEN Parsed(left, pos)
       ELSE LET right == Parse("ParseBinaryExpression", toks, <<pos + 1, RightHandLevel(info.prec, info.assoc)>>)
            IN IF ~right.ok THEN right
               ELSE Parse("BinaryLoop", toks, <<BinaryExpressionNode(info.operation, left, right.node), right.pos, minLevel>>)

ParseNegativeExpression(toks, pos) ==
    LET operand == Parse("ParsePostfixExpression", toks, <<pos + 1>>)
    IN IF ~operand.ok THEN operand
       ELSE Parsed(UnaryExpressionNode("negation", operand.node), operand.pos)

ParseUnaryExpression(toks, pos) ==
    IF PeekToken(toks, pos).kind = "minus"
    THEN Parse("ParseNegativeExpression", toks, <<pos>>)
    ELSE Parse("ParsePostfixExpression", toks, <<pos>>)

ParseBinaryExpression(toks, pos, minLevel) ==
    LET left == Parse("ParseUnaryExpression", toks, <<pos>>)
    IN IF ~left.ok THEN left ELSE Parse("BinaryLoop", toks, <<left.node, left.pos, minLevel>>)

ArgumentLoop(toks, operand, arguments, pos) ==
    IF PeekToken(toks, pos).kind = "comma"
    THEN LET argument == Parse("ParseExpression", toks, <<pos + 1>>)
         IN IF ~argument.ok THEN argument
            ELSE Parse("ArgumentLoop", toks, <<operand, Append(arguments, argument.node), argument.pos>>)
    ELSE IF PeekToken(toks, pos).kind = "rightParen"
    THEN Parsed(CallExpressionNode(operand, arguments), pos + 1)
    ELSE ParseException(pos)

ParseCallExpressionPostfix(toks, operand, pos) ==
    IF PeekToken(toks, pos + 1).kind = "rightParen"
    THEN Parsed(CallExpressionNode(operand, <<>>), pos + 2)
    ELSE LET argument == Parse("ParseExpression", toks, <<pos + 1>>)
         IN IF ~argument.ok THEN argument
            ELSE Parse("ArgumentLoop", toks, <<operand, <<argument.node>>, argument.pos>>)

ParseMemberAccessPostfix(toks, operand, pos) ==
    IF PeekToken(toks, pos + 1).kind # "identifier" THEN ParseException(pos + 1)
    ELSE Parsed(MemberAccessExpressionNode(operand, PeekToken(toks, pos + 1).text),
                pos + 2)

PostfixLoop(toks, operand, pos) ==
    LET postfix ==
            CASE PeekToken(toks, pos).kind = "leftParen" ->
                     Parse("ParseCallExpressionPostfix", toks, <<operand, pos>>)
              [] PeekToken(toks, pos).kind = "period" ->
                     Parse("ParseMemberAccessPostfix", toks, <<operand, pos>>)
              [] OTHER -> ParseException(pos)
    IN IF PeekToken(toks, pos).kind \notin {"leftParen", "period"}
       THEN Parsed(operand, pos)
       ELSE IF ~postfix.ok THEN postfix
       ELSE Parse("PostfixLoop", toks, <<postfix.node, postfix.pos>>)

ParsePostfixExpression(toks, pos) ==
    LET operand == Parse("ParsePrimaryExpression", toks, <<pos>>)
    IN IF ~operand.ok THEN operand
       ELSE Parse("PostfixLoop", toks, <<operand.node, operand.pos>>)

ParseParenExpression(toks, pos) ==
    LET expression == Parse("ParseExpression", toks, <<pos + 1>>)
    IN IF ~expression.ok THEN expression
       ELSE IF PeekToken(toks, expression.pos).kind # "rightParen"
       THEN ParseException(expression.pos)
       ELSE Parsed(expression.node, expression.pos + 1)

ParseClosureExpression(toks, pos) ==
    LET parameters == Parse("ParseParameterList", toks, <<pos + 1>>)
    IN IF ~parameters.ok THEN parameters
       ELSE LET body == Parse("ParseCompoundStatement", toks, <<parameters.pos>>)
            IN IF ~body.ok THEN body
               ELSE Parsed(ClosureExpressionNode(parameters.node, body.node),
                           body.pos)

ParsePrimaryExpression(toks, pos) ==
    LET token == PeekToken(toks, pos)
    IN CASE token.kind = "leftParen" -> Parse("ParseParenExpression", toks, <<pos>>)
         [] token.kind = "keyword_fun" -> Parse("ParseClosureExpression", toks, <<pos>>)
         [] token.kind = "identifier" ->
                Parsed(IdentifierExpressionNode(token.text), pos + 1)
         [] token.kind = "integer" ->
                Parsed(IntegerExpressionNode(token.integerValue), pos + 1)
         [] token.kind = "string" ->
                Parsed(StringExpressionNode(token.stringValue), pos + 1)
         [] OTHER -> ParseException(pos)

Parse(rule, toks, a) ==
    CASE rule = "ParseStatement" ->
             ParseStatement(toks, a[1])
      [] rule = "ParseCompoundStatement" ->
             ParseCompoundStatement(toks, a[1])
      [] rule = "CompoundLoop" ->
             CompoundLoop(toks, a[1], a[2])
      [] rule = "ParseIfStatement" ->
             ParseIfStatement(toks, a[1])
      [] rule = "ParseBinaryExpression" ->
             ParseBinaryExpression(toks, a[1], a[2])
      [] rule = "BinaryLoop" ->
             BinaryLoop(toks, a[1], a[2], a[3])
      [] rule = "ParsePostfixExpression" ->
             ParsePostfixExpression(toks, a[1])
      [] rule = "PostfixLoop" ->
             PostfixLoop(toks, a[1], a[2])
      [] rule = "ParseCallExpressionPostfix" ->
             ParseCallExpressionPostfix(toks, a[1], a[2])
      [] rule = "ArgumentLoop" ->
             ArgumentLoop(toks, a[1], a[2], a[3])
      [] rule = "ParsePrimaryExpression" ->
             ParsePrimaryExpression(toks, a[1])
      [] rule = "ParameterLoop" ->
             ParameterLoop(toks, a[1], a[2])
      [] rule = "ParseExpression" ->
             ParseExpression(toks, a[1])
      [] rule = "ParseParameterList" ->
             ParseParameterList(toks, a[1])
      [] rule = "ParseProcedureStatement" ->
             ParseProcedureStatement(toks, a[1])
      [] rule = "ParseClassStatement" ->
             ParseClassStatement(toks, a[1])
      [] rule = "ParseWhileStatement" ->
             ParseWhileStatement(toks, a[1])
      [] rule = "ParseTopLevelStatement" ->
             ParseTopLevelStatement(toks, a[1])
      [] rule = "ProgramLoop" ->
             ProgramLoop(toks, a[1], a[2])
      [] rule = "ParseNegativeExpression" ->
             ParseNegativeExpression(toks, a[1])
      [] rule = "ParseUnaryExpression" ->
             ParseUnaryExpression(toks, a[1])
      [] rule = "ParseMemberAccessPostfix" ->
             ParseMemberAccessPostfix(toks, a[1], a[2])
      [] rule = "ParseParenExpression" ->
             ParseParenExpression(toks, a[1])
      [] rule = "ParseClosureExpression" ->
             ParseClosureExpression(toks, a[1])

ParseProgram(toks) ==
    LET statement == Parse("ParseTopLevelStatement", toks, <<1>>)
    IN IF ~statement.ok THEN statement
       ELSE Parse("ProgramLoop", toks, <<AddChild(<<>>, statement.node), statement.pos>>)

-----------------------------------------------------------------------------
(* The evaluator.  A frame of stack is one activation of                   *)
(* Interpreter::dispatch/evaluate on node in env (or of an invoke or of    *)
(* ClassObject::getMember); pc counts the sub-evaluations it has started,  *)
(* vals holds the values it has kept in locals.                            *)

InRange(n) == n <= IntMax /\ n >= (0 - IntMax) - 1

\* What a build may do on undefined behaviour (a call through a null
\* pointer, a signed overflow, a division by zero): trap, or run on with
\* an unspecified state.
UndefinedOutcomes == {"crash", "corrupt"}

Frame(node, env) ==
    [node |-> node, env |-> env, pc |-> 0, vals |-> <<>>, obj |-> 0, aux |-> ""]

InvokeFrame(fn, args) ==
    [Frame([kind |-> "Invoke"], 0) EXCEPT !.obj = fn, !.vals = args]

GetMemberNewFrame(cls) == [Frame([kind |-> "New"], 0) EXCEPT !.obj = cls]

Top == stack[Len(stack)]

Running(kind) ==
    status = "running" /\ stack # <<>> /\ Top.node.kind = kind

data == <<envs, heap, output, bodyLog>>
other == <<prog, lastOp, tokens, ast, lexer, stream>>

\* The evaluation ends: evaluate() returned v, or an exception or a fault
\* unwound every activation.
Halt(s, v) ==
    /\ stack' = <<>>
    /\ status' = s
    /\ result' = v
    /\ ret' = Null

\* return v from the activation on top.
Return(v) ==
    IF Len(stack) = 1 THEN Halt("done", v)
    ELSE /\ stack' = SubSeq(stack, 1, Len(stack) - 1)
         /\ ret' = v
         /\ UNCHANGED <<status, result>>

\* throw EvaluateException: caught by the caller of evaluate().
Throw == Halt("error", Null)

Undefined == \E s \in UndefinedOutcomes : Halt(s, Null)

\* A failed conversion: the default asInteger/asString throws, a null
\* pointer is dereferenced.
Fail(st) == IF st = "undefined" THEN Undefined ELSE Throw

\* The activation on top calls: it keeps pc and vals and frame is pushed.
\* A call deeper than the stack allows exhausts it.
Enter(pc, vals, aux, frame) ==
    IF Len(stack) >= MaxStack THEN Halt("crash", Null)
    ELSE /\ stack' = Append([stack EXCEPT ![Len(stack)] =
                                [@ EXCEPT !.pc = pc, !.vals = vals, !.aux = aux]],
                            frame)
         /\ UNCHANGED <<ret, status, result>>

\* dispatch(node, env) from the activation on top.
Dispatch(pc, vals, node, env) == Enter(pc, vals, Top.aux, Frame(node, env))

\* evaluate(ProgramNode) and evaluate(CompoundStatementNode): the children
\* in order, the value of the last one.
EvaluateChildren ==
    LET f == Top
        n == Len(f.node.children)
    IN IF f.pc < n THEN Dispatch(f.pc + 1, <<>>, f.node.children[f.pc + 1], f.env)
       ELSE Return(IF n = 0 THEN Null ELSE ret)

EvaluateProgram ==
    /\ Running("Program")
    /\ EvaluateChildren
    /\ UNCHANGED <<data, other>>

EvaluateCompound ==
    /\ Running("Compound")
    /\ EvaluateChildren
    /\ UNCHANGED <<data, other>>

EvaluateIf ==
    /\ Running("If")
    /\ LET f == Top
       IN CASE f.pc = 0 -> Dispatch(1, <<>>, f.node.condition, f.env)
            [] f.pc = 1 ->
                 IF AsIntegerStatus(ret) # "ok" THEN Fail(AsIntegerStatus(ret))
                 ELSE IF ret.i # 0 THEN Dispatch(2, <<>>, f.node.then, f.env)
                 ELSE IF f.node.otherwise.kind # "None"
                      THEN Dispatch(2, <<>>, f.node.otherwise, f.env)
                 ELSE Return(Null)
            [] OTHER -> Return(ret)
    /\ UNCHANGED <<data, other>>

NonZeroPositive(condition) == condition.i > 0

\* dispatch(node.condition(), env)->asInteger() != 0
NonZero(condition) == condition.i # 0

\* vals is <<last>> once the body has run.
EvaluateWhile ==
    /\ Running("While")
    /\ LET f == Top
           last == IF f.vals = <<>> THEN Null ELSE f.vals[1]
       IN CASE f.pc = 0 -> Dispatch(1, f.vals, f.node.condition, f.env)
            [] f.pc = 1 ->
                 IF AsIntegerStatus(ret) # "ok" THEN Fail(AsIntegerStatus(ret))
                 ELSE IF NonZero(ret) THEN Dispatch(2, f.vals, f.node.body, f.env)
                 ELSE Return(last)
            [] OTHER -> Dispatch(1, <<ret>>, f.node.condition, f.env)
    /\ UNCHANGED <<data, other>>

CaptureTopLevel(env) == 1

\* The frame a function object captures: the env of the evaluation.
CaptureEnv(env) == env

EvaluateProcedure ==
    /\ Running("Procedure")
    /\ LET f == Top
           function == Len(heap) + 1
       IN /\ heap' = Append(heap, StoneFunctionObject(f.node.parameters,
                                                      f.node.body, CaptureEnv(f.env)))
          /\ envs' = EnvPut(envs, f.env, f.node.name, Ref(function))
          /\ Return(Ref(function))
    /\ UNCHANGED <<output, bodyLog, other>>

SuperClassLocal(es, env, name) == EnvGet(es, env, name, FALSE)

\* env->get(*node.superName()): the lookup walks the chain.
SuperClass(es, env, name) == EnvGet(es, env, name, TRUE)

EvaluateClass ==
    /\ Running("Class")
    /\ LET f == Top
           hasSuper == f.node.superName # <<>>
           superClass == IF hasSuper
                         THEN SuperClass(envs, f.env, f.node.superName[1])
                         ELSE Null
           classObject == Len(heap) + 1
       IN IF hasSuper /\ superClass = Null THEN Throw /\ UNCHANGED <<envs, heap>>
          ELSE IF hasSuper /\ TypeOf(superClass, heap) # "class"
               THEN Throw /\ UNCHANGED <<envs, heap>>
          ELSE /\ heap' = Append(heap, ClassObject(f.node.name, f.node.body, f.env,
                                      IF hasSuper THEN superClass.i ELSE 0))
               /\ envs' = EnvPut(envs, f.env, f.node.name, Ref(classObject))
               /\ Return(Ref(classObject))
    /\ UNCHANGED <<output, bodyLog, other>>

-----------------------------------------------------------------------------
(* evaluate(BinaryExpressionNode). *)

ArithmeticOperators ==
    {"subtraction", "multiplication", "division", "modulo",
     "lesserThan", "lesserEqual", "greaterThan", "greaterEqual"}

EqualityOperators == {"equal", "notEqual"}

BinaryNode(op) == Running("Binary") /\ Top.node.operation \in op

\* The host's signed division and remainder: the quotient truncates toward 0.
Abs(n) == IF n < 0 THEN 0 - n ELSE n
Quotient(a, b) ==
    IF (a < 0) = (b < 0) THEN Abs(a) \div Abs(b) ELSE 0 - (Abs(a) \div Abs(b))
Remainder(a, b) == a - b * Quotient(a, b)

Truth(b) == IF b THEN 1 ELSE 0

\* The int the operator yields from the two asInteger() views.
Arithmetic(op, a, b) ==
    CASE op = "subtraction" -> a - b
      [] op = "multiplication" -> a * b
      [] op = "division" -> Quotient(a, b)
      [] op = "modulo" -> Remainder(a, b)
      [] op = "lesserThan" -> Truth(a < b)
      [] op = "lesserEqual" -> Truth(a <= b)
      [] op = "greaterThan" -> Truth(a > b)
      [] op = "greaterEqual" -> Truth(a >= b)

ConcatenationReversed(ls, rs) == rs \o ls

\* left->asString() + right->asString()
Concatenation(ls, rs) == ls \o rs

\* case addition: left, then right, then the sum or the concatenation.
EvaluateAddition ==
    /\ BinaryNode({"addition"})
    /\ LET f == Top
           left == f.vals[1]
           right == ret
           ls == AsString(left, heap)
           rs == AsString(right, heap)
       IN CASE f.pc = 0 -> Dispatch(1, <<>>, f.node.left, f.env)
            [] f.pc = 1 -> Dispatch(2, <<ret>>, f.node.right, f.env)
            [] OTHER ->
                 IF left = Null THEN Undefined
                 ELSE IF IsInteger(left) /\ right = Null THEN Undefined
                 ELSE IF IsInteger(left) /\ IsInteger(right)
                      THEN IF InRange(left.i + right.i)
                           THEN Return(IntegerObject(left.i + right.i))
                           ELSE Undefined
                 ELSE IF ls.st = "ok" /\ rs.st = "ok"
                      THEN Return(StringObject(Concatenation(ls.s, rs.s)))
                 ELSE \E r \in {x \in {ls, rs} : x.st # "ok"} : Fail(r.st)
    /\ UNCHANGED <<data, other>>

(* case subtraction ... greaterEqual: dispatch(left)->asInteger() op       *)
(* dispatch(right)->asInteger().  C++ leaves the order of the two operands *)
(* unspecified: either dispatch may run first (aux names it), and each     *)
(* conversion may run right after its dispatch or after both.              *)
EvaluateArithmetic ==
    /\ BinaryNode(ArithmeticOperators)
    /\ LET f == Top
           second == IF f.aux = "left" THEN f.node.right ELSE f.node.left
           left == IF f.aux = "left" THEN f.vals[1] ELSE ret
           right == IF f.aux = "left" THEN ret ELSE f.vals[1]
           value == Arithmetic(f.node.operation, left.i, right.i)
       IN CASE f.pc = 0 ->
                 \E first \in {"left", "right"} :
                     Enter(1, <<>>, first,
                           Frame(IF first = "left" THEN f.node.left ELSE f.node.right,
                                 f.env))
            [] f.pc = 1 ->
                 \E eager \in BOOLEAN :
                     IF eager /\ AsIntegerStatus(ret) # "ok"
                     THEN Fail(AsIntegerStatus(ret))
                     ELSE Dispatch(2, <<ret>>, second, f.env)
            [] OTHER ->
                 IF AsIntegerStatus(left) = "ok" /\ AsIntegerStatus(right) = "ok"
                 THEN IF f.node.operation \in {"division", "modulo"} /\ right.i = 0
                      THEN Undefined
                      ELSE IF InRange(value) THEN Return(IntegerObject(value))
                      ELSE Undefined
                 ELSE \E v \in {x \in {left, right} : AsIntegerStatus(x) # "ok"} :
                          Fail(AsIntegerStatus(v))
    /\ UNCHANGED <<data, other>>

\* case equal and case notEqual: the outcomes [st, i] the comparison may
\* have: st "ok" with i 1 or 0, or the way it fails.
Yields(b) == {[st |-> "ok", i |-> Truth(b)]}
Fails(sts) == {[st |-> x, i |-> 0] : x \in sts}

EqualityOutcome(op, left, right, hp) ==
    LET ls == AsString(left, hp)
        rs == AsString(right, hp)
        bad == {x \in {ls, rs} : x.st # "ok"}
        same == left = right /\ left.t = "ref"
        byString ==
            IF bad = {} THEN Yields(IF op = "equal" THEN ls.s = rs.s ELSE ls.s # rs.s)
            ELSE Fails({x.st : x \in bad})
        byIdentity == Yields(IF op = "equal" THEN same ELSE ~same)
    IN IF left = Null THEN Fails({"undefined"})
       ELSE IF op = "equal"
       THEN IF IsInteger(left) /\ right = Null THEN Fails({"undefined"})
            ELSE IF IsInteger(left) /\ IsInteger(right) THEN Yields(left.i = right.i)
            ELSE IF IsString(left) THEN byString
            ELSE IF right = Null THEN Fails({"undefined"})
            ELSE IF IsString(right) THEN byString
            ELSE byIdentity
       ELSE IF IsInteger(left) \/ (right # Null /\ IsInteger(right))
            THEN IF IsInteger(left) /\ IsInteger(right) THEN Yields(left.i # right.i)
                 ELSE Fails({AsIntegerStatus(x) :
                               x \in {y \in {left, right} : AsIntegerStatus(y) # "ok"}})
            ELSE IF right = Null THEN Fails({"undefined"})
            ELSE IF IsString(left) \/ IsString(right) THEN byString
            ELSE byIdentity

EvaluateEquality ==
    /\ BinaryNode(EqualityOperators)
    /\ LET f == Top
       IN CASE f.pc = 0 -> Dispatch(1, <<>>, f.node.left, f.env)
            [] f.pc = 1 -> Dispatch(2, <<ret>>, f.node.right, f.env)
            [] OTHER ->
                 \E o \in EqualityOutcome(f.node.operation, f.vals[1], ret, heap) :
                     IF o.st # "ok" THEN Fail(o.st) ELSE Return(IntegerObject(o.i))
    /\ UNCHANGED <<data, other>>

IndexInBoundsShort(index, elems) == index.i >= 0 /\ index.i < Len(elems) - 1

\* case assign: the three assignable forms of the left-hand side.
IndexInBounds(index, elems) == index.i >= 0 /\ index.i < Len(elems)

EvaluateAssignIdentifier ==
    /\ BinaryNode({"assign"})
    /\ Top.node.left.kind = "Identifier"
    /\ LET f == Top
       IN CASE f.pc = 0 ->
                 Dispatch(1, <<>>, f.node.right, f.env) /\ UNCHANGED envs
            [] OTHER ->
                 \* Environment::set asserts value: with assertions compiled
                 \* in a null right-hand side aborts, without them it is bound.
                 \E asserts \in BOOLEAN :
                     IF asserts /\ ret = Null
                     THEN Halt("crash", Null) /\ UNCHANGED envs
                     ELSE /\ envs' = EnvSet(envs, f.env, f.node.left.name, ret)
                          /\ Return(ret)
    /\ UNCHANGED <<heap, output, bodyLog, other>>

InstanceSetMemberWalk(es, instance, memberName, value) ==
    EnvSet(es, instance.env, memberName, value)

\* InstanceObject::setMember on the instance's own frame.
InstanceSetMember(es, instance, memberName, value) ==
    EnvPut(es, instance.env, memberName, value)

EvaluateAssignMember ==
    /\ BinaryNode({"assign"})
    /\ Top.node.left.kind = "MemberAccess"
    /\ LET f == Top
           right == f.vals[1]
           operand == ret
       IN CASE f.pc = 0 ->
                 Dispatch(1, <<>>, f.node.right, f.env) /\ UNCHANGED envs
            [] f.pc = 1 ->
                 Dispatch(2, <<ret>>, f.node.left.operand, f.env) /\ UNCHANGED envs
            [] OTHER ->
                 IF operand = Null THEN Undefined /\ UNCHANGED envs
                 ELSE IF TypeOf(operand, heap) = "instance"
                 THEN /\ envs' = InstanceSetMember(envs, heap[operand.i],
                                                   f.node.left.memberName, right)
                      /\ Return(right)
                 ELSE Throw /\ UNCHANGED envs
    /\ UNCHANGED <<heap, output, bodyLog, other>>

EvaluateAssignIndex ==
    /\ BinaryNode({"assign"})
    /\ Top.node.left.kind = "ArrayIndex"
    /\ LET f == Top
           right == f.vals[1]
           index == f.vals[2]
           operand == ret
       IN CASE f.pc = 0 ->
                 Dispatch(1, <<>>, f.node.right, f.env) /\ UNCHANGED heap
            [] f.pc = 1 ->
                 Dispatch(2, <<ret>>, f.node.left.index, f.env) /\ UNCHANGED heap
            [] f.pc = 2 ->
                 Dispatch(3, <<f.vals[1], ret>>, f.node.left.operand, f.env)
                 /\ UNCHANGED heap
            [] OTHER ->
                 IF operand = Null THEN Undefined /\ UNCHANGED heap
                 ELSE IF TypeOf(operand, heap) # "array" THEN Throw /\ UNCHANGED heap
                 ELSE IF AsIntegerStatus(index) # "ok"
                      THEN Fail(AsIntegerStatus(index)) /\ UNCHANGED heap
                 ELSE IF IndexInBounds(index, heap[operand.i].elems)
                      THEN /\ heap' = [heap EXCEPT ![operand.i].elems[index.i + 1] = right]
                           /\ Return(right)
                 ELSE Throw /\ UNCHANGED heap
    /\ UNCHANGED <<envs, output, bodyLog, other>>

\* Any other left-hand side: "invalid assignment."
EvaluateAssignInvalid ==
    /\ BinaryNode({"assign"})
    /\ Top.node.left.kind \notin {"Identifier", "MemberAccess", "ArrayIndex"}
    /\ Throw
    /\ UNCHANGED <<data, other>>

\* The node evaluate(UnaryExpressionNode) hands to dispatch for the operand.
NegationOperand(node) == node

EvaluateUnary ==
    /\ Running("Unary")
    /\ LET f == Top
       IN IF f.node.operation # "negation" THEN Throw
          ELSE CASE f.pc = 0 -> Dispatch(1, <<>>, NegationOperand(f.node), f.env)
                 [] OTHER ->
                      IF AsIntegerStatus(ret) # "ok" THEN Fail(AsIntegerStatus(ret))
                      ELSE IF InRange(0 - ret.i) THEN Return(IntegerObject(0 - ret.i))
                      ELSE Undefined
    /\ UNCHANGED <<data, other>>

-----------------------------------------------------------------------------
(* Calls, members, indexing, literals. *)

\* evaluate(CallExpressionNode): vals collects the callee, then the arguments.
EvaluateCall ==
    /\ Running("Call")
    /\ LET f == Top
           n == Len(f.node.arguments)
           got == Append(f.vals, ret)
           function == got[1]
       IN CASE f.pc = 0 -> Dispatch(1, <<>>, f.node.callee, f.env)
            [] f.pc = n + 2 -> Return(ret)
            [] OTHER ->
                 IF Len(got) <= n
                 THEN Dispatch(f.pc + 1, got, f.node.arguments[Len(got)], f.env)
                 ELSE IF function = Null THEN Undefined
                 ELSE IF TypeOf(function, heap) \in {"function", "native"}
                      THEN Enter(n + 2, got, f.aux, InvokeFrame(function.i, Tail(got)))
                 ELSE Throw
    /\ UNCHANGED <<data, other>>

PushNoArguments(table, parameters, arguments, i) == table

\* The loop of StoneFunctionObject::invoke: parameter i is put to argument i.
RECURSIVE PushArguments(_, _, _, _)
PushArguments(table, parameters, arguments, i) ==
    IF i > Len(arguments) THEN table
    ELSE PushArguments(TablePut(table, parameters[i], arguments[i]),
                       parameters, arguments, i + 1)

\* A faulty CalleeParent (dynamic scoping): the frame made last, the caller's.
CalleeParentDynamic(function) == Len(envs)

\* The parent of the frame a call runs in: the function's m_env.
CalleeParent(function) == function.env

ArityAtMost(arguments, parameters) == Len(arguments) <= Len(parameters)

\* arguments.size() != m_parameters.children().size() throws.
ArityMatches(arguments, parameters) == Len(arguments) = Len(parameters)

\* StoneFunctionObject::invoke.  The frame made before the arity check dies
\* with the throw: it is allocated here only when the call goes on.
StoneFunctionInvoke ==
    /\ Running("Invoke")
    /\ heap[Top.obj].type = "function"
    /\ LET f == Top
           function == heap[f.obj]
           calleeEnv == Len(envs) + 1
       IN CASE f.pc = 0 ->
                 IF ~ArityMatches(f.vals, function.params)
                 THEN Throw /\ UNCHANGED envs
                 ELSE /\ envs' = Append(envs,
                             [parent |-> CalleeParent(function),
                              table |-> PushArguments(EmptyTable, function.params,
                                                      f.vals, 1)])
                      /\ Dispatch(1, f.vals, function.body, calleeEnv)
            [] OTHER -> Return(ret) /\ UNCHANGED envs
    /\ UNCHANGED <<heap, output, bodyLog, other>>

\* NativeFunctionObject::invoke of the host's print (stone.cpp): it prints
\* value->asString() and returns value.
NativeFunctionInvoke ==
    /\ Running("Invoke")
    /\ heap[Top.obj].type = "native"
    /\ LET f == Top
           text == AsString(f.vals[1], heap)
       IN IF Len(f.vals) # Len(heap[f.obj].params)
          THEN Throw /\ UNCHANGED output
          ELSE IF text.st # "ok" THEN Fail(text.st) /\ UNCHANGED output
          ELSE /\ output' = Append(output, [value |-> f.vals[1], text |-> text.s])
               /\ Return(f.vals[1])
    /\ UNCHANGED <<envs, heap, bodyLog, other>>

InstanceGetMemberRecursive(es, instance, memberName) ==
    EnvGet(es, instance.env, memberName, TRUE)

\* InstanceObject::getMember: m_env->get(memberName, false).
InstanceGetMember(es, instance, memberName) ==
    EnvGet(es, instance.env, memberName, FALSE)

\* evaluate(MemberAccessExpressionNode) and the getMember of each object.
EvaluateMemberAccess ==
    /\ Running("MemberAccess")
    /\ LET f == Top
           operand == ret
           member == InstanceGetMember(envs, heap[operand.i], f.node.memberName)
       IN CASE f.pc = 0 -> Dispatch(1, <<>>, f.node.operand, f.env)
            [] f.pc = 1 ->
                 IF operand = Null THEN Undefined
                 ELSE IF TypeOf(operand, heap) = "instance"
                      THEN IF member # Null THEN Return(member) ELSE Throw
                 ELSE IF TypeOf(operand, heap) = "class" /\ f.node.memberName = "new"
                      THEN Enter(2, <<>>, f.aux, GetMemberNewFrame(operand.i))
                 ELSE Throw
            [] OTHER -> Return(ret)
    /\ UNCHANGED <<data, other>>

\* The frame InstanceObject::create makes for a class: its parent is the
\* class's defining environment, and it binds this.
InstanceFrame(class, this) ==
    [parent |-> class.env, table |-> TablePut(EmptyTable, "this", Ref(this))]

\* ClassObject::getMember("new"): the super class's new object or a fresh
\* instance, then this class's body in the object's frame.
ClassGetMember ==
    /\ Running("New")
    /\ LET f == Top
           class == heap[f.obj]
           fresh == Len(heap) + 1
           freshEnv == Len(envs) + 1
       IN CASE f.pc = 0 /\ class.super # 0 ->
                 /\ Enter(1, <<>>, f.aux, GetMemberNewFrame(class.super))
                 /\ UNCHANGED <<envs, heap, bodyLog>>
            [] f.pc = 0 /\ class.super = 0 ->
                 /\ envs' = Append(envs, InstanceFrame(class, fresh))
                 /\ heap' = Append(heap, InstanceObject(freshEnv))
                 /\ bodyLog' = Append(bodyLog, [class |-> class.name, env |-> freshEnv])
                 /\ Dispatch(2, <<Ref(fresh)>>, class.body, freshEnv)
            [] f.pc = 1 ->
                 /\ bodyLog' = Append(bodyLog, [class |-> class.name,
                                                env |-> heap[ret.i].env])
                 /\ Dispatch(2, <<ret>>, class.body, heap[ret.i].env)
                 /\ UNCHANGED <<envs, heap>>
            [] OTHER ->
                 Return(f.vals[1]) /\ UNCHANGED <<envs, heap, bodyLog>>
    /\ UNCHANGED <<output, other>>

EvaluateClosure ==
    /\ Running("Closure")
    /\ heap' = Append(heap, StoneFunctionObject(Top.node.parameters, Top.node.body,
                                                CaptureEnv(Top.env)))
    /\ Return(Ref(Len(heap) + 1))
    /\ UNCHANGED <<envs, output, bodyLog, other>>

\* evaluate(ArrayExpressionNode): vals collects the elements.
EvaluateArray ==
    /\ Running("Array")
    /\ LET f == Top
           n == Len(f.node.children)
           got == IF f.pc = 0 THEN <<>> ELSE Append(f.vals, ret)
       IN IF f.pc < n
          THEN Dispatch(f.pc + 1, got, f.node.children[f.pc + 1], f.env)
               /\ UNCHANGED heap
          ELSE /\ heap' = Append(heap, ArrayObject(got))
               /\ Return(Ref(Len(heap) + 1))
    /\ UNCHANGED <<envs, output, bodyLog, other>>

\* evaluate(ArrayIndexExpressionNode): the index, then the operand.
EvaluateArrayIndex ==
    /\ Running("ArrayIndex")
    /\ LET f == Top
           index == f.vals[1]
           operand == ret
       IN CASE f.pc = 0 -> Dispatch(1, <<>>, f.node.index, f.env)
            [] f.pc = 1 -> Dispatch(2, <<ret>>, f.node.operand, f.env)
            [] OTHER ->
                 IF operand = Null THEN Undefined
                 ELSE IF TypeOf(operand, heap) # "array" THEN Throw
                 ELSE IF AsIntegerStatus(index) # "ok" THEN Fail(AsIntegerStatus(index))
                 ELSE IF IndexInBounds(index, heap[operand.i].elems)
                      THEN Return(heap[operand.i].elems[index.i + 1])
                 ELSE Throw
    /\ UNCHANGED <<data, other>>

EvaluateIdentifier ==
    /\ Running("Identifier")
    /\ Return(EnvGet(envs, Top.env, Top.node.name, TRUE))
    /\ UNCHANGED <<data, other>>

EvaluateInteger ==
    /\ Running("Integer")
    /\ Return(IntegerObject(Top.node.value))
    /\ UNCHANGED <<data, other>>

EvaluateString ==
    /\ Running("String")
    /\ Return(StringObject(Top.node.value))
    /\ UNCHANGED <<data, other>>

-----------------------------------------------------------------------------
(* The programs the evaluator is run on, as the ASTs the parser builds for *)
(* them.  A descriptor [fam, a, b, k, calls] names one program of a family.*)

Id(name) == IdentifierExpressionNode(name)
Num(value) == IntegerExpressionNode(value)
Bin(op, l, r) == BinaryExpressionNode(op, l, r)
Let(name, e) == BinaryExpressionNode("assign", Id(name), e)
CallOf(callee, args) == CallExpressionNode(callee, args)
Dot(operand, member) == MemberAccessExpressionNode(operand, member)
Block(children) == CompoundStatementNode(children)
Def(name, params, children) == ProcedureStatementNode(name, params, Block(children))
Fun(params, children) == ClosureExpressionNode(params, Block(children))
PrintOf(e) == CallOf(Id("print"), <<e>>)
Opt(present, statement) == IF present THEN <<statement>> ELSE <<>>

Descriptor(fam, a, b, k, calls) ==
    [fam |-> fam, a |-> a, b |-> b, k |-> k, calls |-> calls]

SeqsUpTo(S, n) == UNION {[1..m -> S] : m \in 0..n}

\* def counter() { cnt = 0; fun() { cnt = cnt + 1 } }
\* c = counter(); d = counter(); print(<calls[1]>()); print(<calls[2]>()); ...
CounterProgram(calls) ==
    <<Def("counter", <<>>,
          <<Let("cnt", Num(0)),
            Fun(<<>>, <<Let("cnt", Bin("addition", Id("cnt"), Num(1)))>>)>>),
      Let("c", CallOf(Id("counter"), <<>>)),
      Let("d", CallOf(Id("counter"), <<>>))>>
    \o [i \in 1..Len(calls) |-> PrintOf(CallOf(Id(calls[i]), <<>>))]

\* [x = 1]; def outer(x | y) { def inner() { x = 2 }; inner(); 0 }; outer(10)
\* a: the top level binds x; b: outer's parameter is x.
AssignProgram(a, b) ==
    Opt(a, Let("x", Num(1)))
    \o <<Def("outer", <<IF b THEN "x" ELSE "y">>,
             <<Def("inner", <<>>, <<Let("x", Num(2))>>),
               CallOf(Id("inner"), <<>>),
               Num(0)>>),
         CallOf(Id("outer"), <<Num(10)>>)>>

\* [def g() { 1 }]; def f() { def g() { 2 } }; h = f(); [print(g())]; print(h())
\* a: the top level defines g.
DefProgram(a) ==
    Opt(a, Def("g", <<>>, <<Num(1)>>))
    \o <<Def("f", <<>>, <<Def("g", <<>>, <<Num(2)>>)>>),
         Let("h", CallOf(Id("f"), <<>>))>>
    \o Opt(a, PrintOf(CallOf(Id("g"), <<>>)))
    \o <<PrintOf(CallOf(Id("h"), <<>>))>>

\* [n = 5]; class C { n = 1 }; p = C.new; p.n        a: the top level binds n.
FieldProgram(a) ==
    Opt(a, Let("n", Num(5)))
    \o <<ClassStatementNode("C", <<>>, Block(<<Let("n", Num(1))>>)),
         Let("p", Dot(Id("C"), "new")),
         Dot(Id("p"), "n")>>

MemberNames == <<"a", "this", "g", "print", "C", "p", "q">>

\* g = 7; class C { a = 1 }; p = C.new; p.<MemberNames[k]>
MemberProgram(k) ==
    <<Let("g", Num(7)),
      ClassStatementNode("C", <<>>, Block(<<Let("a", Num(1))>>)),
      Let("p", Dot(Id("C"), "new")),
      Dot(Id("p"), MemberNames[k])>>

ClassNames == <<"C0", "C1", "C2", "C3", "C4">>
FieldNames == <<"f0", "f1", "f2", "f3", "f4">>

\* class Ci [extends C(i-1)] { fi = i; v = i; def m() { i } }
ChainClass(i) ==
    ClassStatementNode(ClassNames[i + 1],
                       IF i = 0 THEN <<>> ELSE <<ClassNames[i]>>,
                       Block(<<Let(FieldNames[i + 1], Num(i)),
                               Let("v", Num(i)),
                               Def("m", <<>>, <<Num(i)>>)>>))

\* [v = 9]; class C0 {...}; ...; class C(k-1) extends C(k-2) {...};
\* p = C(k-1).new; p.m()                               a: the top level binds v.
ChainProgram(k, a) ==
    Opt(a, Let("v", Num(9)))
    \o [i \in 1..k |-> ChainClass(i - 1)]
    \o <<Let("p", Dot(Id(ClassNames[k]), "new")),
         CallOf(Dot(Id("p"), "m"), <<>>)>>

\* -5        and        x = 3; -x
NegationProgram(a) ==
    IF a THEN <<Let("x", Num(3)), UnaryExpressionNode("negation", Id("x"))>>
    ELSE <<UnaryExpressionNode("negation", Num(5))>>

\* even = 0; odd = 0; i = 1
\* while i < 10 { if i % 2 == 0 { even = even + 1 } else { odd = odd + 1 }; i = i + 1 }
\* even + odd
EvenOddProgram ==
    <<Let("even", Num(0)), Let("odd", Num(0)), Let("i", Num(1)),
      WhileStatementNode(
          Bin("lesserThan", Id("i"), Num(10)),
          Block(<<IfStatementNode(
                      Bin("equal", Bin("modulo", Id("i"), Num(2)), Num(0)),
                      Block(<<Let("even", Bin("addition", Id("even"), Num(1)))>>),
                      Block(<<Let("odd", Bin("addition", Id("odd"), Num(1)))>>)),
                  Let("i", Bin("addition", Id("i"), Num(1)))>>)),
      Bin("addition", Id("even"), Id("odd"))>>

\* a = [2, 3, 4]; a[1] = "three"; a[0] + ":" + a[1]
ArrayProgram ==
    <<Let("a", ArrayExpressionNode(<<Num(2), Num(3), Num(4)>>)),
      Bin("assign", ArrayIndexExpressionNode(Id("a"), Num(1)),
          StringExpressionNode(<<"t", "h", "r", "e", "e">>)),
      Bin("addition",
          Bin("addition", ArrayIndexExpressionNode(Id("a"), Num(0)),
              StringExpressionNode(<<":">>)),
          ArrayIndexExpressionNode(Id("a"), Num(1)))>>

\* The program of stone.cpp's main.
PositionClass ==
    ClassStatementNode("Position", <<>>,
        Block(<<Let("x", Let("y", Num(0))),
                Def("move", <<"_x", "_y">>,
                    <<Let("x", Id("_x")), Let("y", Id("_y"))>>)>>))

Pos3DClass ==
    ClassStatementNode("Pos3D", <<"Position">>,
        Block(<<Let("z", Num(0)),
                Def("set", <<"_x", "_y", "_z">>,
                    <<Let("x", Id("_x")), Let("y", Id("_y")), Let("z", Id("_z"))>>)>>))

MainProgram ==
    <<PositionClass,
      Let("p", Dot(Id("Position"), "new")),
      CallOf(Dot(Id("p"), "move"), <<Num(3), Num(4)>>),
      Bin("assign", Dot(Id("p"), "x"), Num(10)),
      PrintOf(Dot(Id("p"), "x")),
      PrintOf(Dot(Id("p"), "y")),
      Pos3DClass,
      Let("p", Dot(Id("Pos3D"), "new")),
      CallOf(Dot(Id("p"), "move"), <<Num(3), Num(4)>>),
      PrintOf(Dot(Id("p"), "x")),
      PrintOf(Dot(Id("p"), "y")),
      PrintOf(Dot(Id("p"), "z")),
      CallOf(Dot(Id("p"), "set"), <<Num(5), Num(6), Num(7)>>),
      PrintOf(Dot(Id("p"), "x")),
      PrintOf(Dot(Id("p"), "y")),
      PrintOf(Dot(Id("p"), "z"))>>

\* 1 = 2
InvalidAssignProgram == <<Bin("assign", Num(1), Num(2))>>

BinaryTokens ==
    <<"star", "slash", "percent", "plus", "minus", "lesserThan", "lesserEqual",
      "greaterThan", "greaterEqual", "equal", "notEqual", "assign">>

FirstOperator(k) == BinaryTokens[((k - 1) \div Len(BinaryTokens)) + 1]
SecondOperator(k) == BinaryTokens[((k - 1) % Len(BinaryTokens)) + 1]

\* a op1 b op2 c
PairExpression(k) ==
    <<IdentifierToken("a"), Punctuator(FirstOperator(k)), IdentifierToken("b"),
      Punctuator(SecondOperator(k)), IdentifierToken("c")>>

\* a = 7; b = 3; c = 2
\* a op1 b op2 c
PairSource(k) ==
    <<IdentifierToken("a"), Punctuator("assign"), IntegerToken(7),
      Punctuator("semicolon"),
      IdentifierToken("b"), Punctuator("assign"), IntegerToken(3),
      Punctuator("semicolon"),
      IdentifierToken("c"), Punctuator("assign"), IntegerToken(2),
      Punctuator("endOfLine")>> \o PairExpression(k)

\* a = b = print(3)
RightAssocSource ==
    <<IdentifierToken("a"), Punctuator("assign"), IdentifierToken("b"),
      Punctuator("assign"), IdentifierToken("print"), Punctuator("leftParen"),
      IntegerToken(3), Punctuator("rightParen"), Punctuator("endOfLine")>>

\* "a" + 1 + 2 and 1 + 2 + "a"
ConcatSource(a) ==
    IF a THEN <<StringToken(<<"a">>), Punctuator("plus"), IntegerToken(1),
                Punctuator("plus"), IntegerToken(2)>>
    ELSE <<IntegerToken(1), Punctuator("plus"), IntegerToken(2),
           Punctuator("plus"), StringToken(<<"a">>)>>

\* The programs given as source text.
StringLiteralText ==
    <<"\"", "t", "h", "r", "e", "e", "\"">>
ArrayText ==
    <<"a", " ", "=", " ", "[", "2", ",", " ", "3", ",", " ", "4", "]", ";",
      " ", "a", "[", "1", "]", " ", "=", " ", "\"", "t", "h", "r", "e",
      "e", "\"", ";", " ", "a", "[", "0", "]", " ", "+", " ", "\"", ":",
      "\"", " ", "+", " ", "a", "[", "1", "]">>
CommentText ==
    <<"x", " ", "=", " ", "1", "2", " ", "/", "/", " ", "c", "\n", "x",
      " ", "+", " ", "1">>
TrailingCommentText ==
    <<"x", " ", "=", " ", "1", " ", "/", "/", " ", "c">>
Texts == <<StringLiteralText, ArrayText, CommentText, TrailingCommentText>>
TextFamilies == {"text"}

\* The programs given as the token sequence the lexer hands to the parser.
SourceFamilies == {"rassoc", "pair", "concat"}

Source(d) ==
    CASE d.fam = "rassoc" -> RightAssocSource
      [] d.fam = "pair" -> PairSource(d.k)
      [] d.fam = "concat" -> ConcatSource(d.a)

\* The operands of the comparisons: two Integers, two Strings, two functions.
EqualityOperands ==
    <<Num(1), Num(2), StringExpressionNode(<<"1">>), StringExpressionNode(<<"a">>),
      Id("f"), Id("g")>>

LeftOperand(k) == ((k - 1) \div Len(EqualityOperands)) + 1
RightOperand(k) == ((k - 1) % Len(EqualityOperands)) + 1

\* def f() { 0 }; def g() { 0 }; e = X == Y; n = X != Y; e + n
EqualityProgram(k) ==
    <<Def("f", <<>>, <<Num(0)>>), Def("g", <<>>, <<Num(0)>>),
      Let("e", Bin("equal", EqualityOperands[LeftOperand(k)],
                   EqualityOperands[RightOperand(k)])),
      Let("n", Bin("notEqual", EqualityOperands[LeftOperand(k)],
                   EqualityOperands[RightOperand(k)])),
      Bin("addition", Id("e"), Id("n"))>>

\* X + Y for X, Y among the Integers 1, 2 and the Strings "1", "a".
SumOperands == Len(SelectSeq(EqualityOperands, LAMBDA e : e.kind # "Identifier"))
SumProgram(k) ==
    <<Bin("addition", EqualityOperands[((k - 1) \div SumOperands) + 1],
          EqualityOperands[((k - 1) % SumOperands) + 1])>>

\* The dividends 0, 7 and 0 - 7.
Dividends == <<Num(0), Num(7), Bin("subtraction", Num(0), Num(7))>>

\* X / 0 and X % 0
DivZeroProgram(a, k) ==
    <<Bin(IF a THEN "division" ELSE "modulo", Dividends[k], Num(0))>>

\* u alone, and u, bound nowhere, in each context that requires a type:
\* u + 1, u - 1, u < 1, u == 1, u != 1, if u { 1 }, while u { 1 }, u(),
\* u.m, u[0]
UnboundUses ==
    <<Id("u"),
      Bin("addition", Id("u"), Num(1)),
      Bin("subtraction", Id("u"), Num(1)),
      Bin("lesserThan", Id("u"), Num(1)),
      Bin("equal", Id("u"), Num(1)),
      Bin("notEqual", Id("u"), Num(1)),
      IfStatementNode(Id("u"), Block(<<Num(1)>>), NoNode),
      WhileStatementNode(Id("u"), Block(<<Num(1)>>)),
      CallOf(Id("u"), <<>>),
      Dot(Id("u"), "m"),
      ArrayIndexExpressionNode(Id("u"), Num(0))>>

UnboundProgram(k) == <<UnboundUses[k]>>

ArityParameters == <<"p1", "p2">>
ArityArguments == <<Num(10), Num(20)>>
ParameterCount(k) == (k - 1) \div (Len(ArityArguments) + 1)
ArgumentCount(k) == (k - 1) % (Len(ArityArguments) + 1)

\* g = 5; def f(p1, .., pp) { print(1); g = 6; <value> }; f(10, .., )
\* with p parameters and n arguments; <value> is 0, p1, p2 - p1.
ArityProgram(k) ==
    <<Let("g", Num(5)),
      Def("f", SubSeq(ArityParameters, 1, ParameterCount(k)),
          <<PrintOf(Num(1)), Let("g", Num(6)),
            CASE ParameterCount(k) = 0 -> Num(0)
              [] ParameterCount(k) = 1 -> Id("p1")
              [] OTHER -> Bin("subtraction", Id("p2"), Id("p1"))>>),
      CallOf(Id("f"), SubSeq(ArityArguments, 1, ArgumentCount(k)))>>

\* print(10, .., ) with n arguments
NativeArityProgram(k) ==
    <<CallOf(Id("print"), SubSeq(ArityArguments, 1, k - 1))>>

ArrayElements == <<Num(10), Num(11)>>
\* The indexes -1 (as 0 - 1), 0, 1, 2, 3.
ArrayIndexes ==
    <<Bin("subtraction", Num(0), Num(1)), Num(0), Num(1), Num(2), Num(3)>>
ArrayLength(k) == (k - 1) \div Len(ArrayIndexes)
ArrayIndexOf(k) == ((k - 1) % Len(ArrayIndexes)) - 1

\* a = [10, ..]; a[i]       (get)
\* a = [10, ..]; a[i] = 99  (set)
\* for the arrays of length 0..2 and i in -1..3
IndexProgram(get, k) ==
    LET place == ArrayIndexExpressionNode(Id("a"), ArrayIndexes[ArrayIndexOf(k) + 2])
    IN <<Let("a", ArrayExpressionNode(SubSeq(ArrayElements, 1, ArrayLength(k)))),
         IF get THEN place ELSE Bin("assign", place, Num(99))>>

\* print(1) op print(2) for the k-th binary operator other than `=`, then
\* def c() { print(1); fun(x, y) { 0 } }; c()(print(2), print(3))
\* def arr() { print(1); [5] }; arr()[print(0)]
OrderProgram(k) ==
    CASE k < Len(BinaryTokens) ->
             <<Bin(BinaryOperatorOf(BinaryTokens[k]).operation,
                   PrintOf(Num(1)), PrintOf(Num(2)))>>
      [] k = Len(BinaryTokens) ->
             <<Def("c", <<>>, <<PrintOf(Num(1)), Fun(<<"x", "y">>, <<Num(0)>>)>>),
               CallOf(CallOf(Id("c"), <<>>), <<PrintOf(Num(2)), PrintOf(Num(3))>>)>>
      [] OTHER ->
             <<Def("arr", <<>>, <<PrintOf(Num(1)), ArrayExpressionNode(<<Num(5)>>)>>),
               ArrayIndexExpressionNode(CallOf(Id("arr"), <<>>), PrintOf(Num(0)))>>

\* What binds S before the declaration: nothing, an Integer, a String, a
\* function, a class, an instance, an array.
SuperBindings ==
    <<<<>>,
      <<Let("S", Num(5))>>,
      <<Let("S", StringExpressionNode(<<"s">>))>>,
      <<Def("S", <<>>, <<Num(0)>>)>>,
      <<ClassStatementNode("S", <<>>, Block(<<>>))>>,
      <<ClassStatementNode("R", <<>>, Block(<<>>)), Let("S", Dot(Id("R"), "new"))>>,
      <<Let("S", ArrayExpressionNode(<<Num(1)>>))>>>>

\* <SuperBindings[k]>; class C extends S { }; S = 0; C
\* a: <SuperBindings[k]>; def f() { class C extends S { } }; r = f(); S = 0; r
ExtendsProgram(k, a) ==
    SuperBindings[k]
    \o (IF a
        THEN <<Def("f", <<>>, <<ClassStatementNode("C", <<"S">>, Block(<<>>))>>),
               Let("r", CallOf(Id("f"), <<>>)),
               Let("S", Num(0)),
               Id("r")>>
        ELSE <<ClassStatementNode("C", <<"S">>, Block(<<>>)),
               Let("S", Num(0)),
               Id("C")>>)

\* i = k; n = 0; while print(i) { i = i - 1; n = n + 1 }
\* a: i = 0 - k; n = 0; while print(i) { i = i + 1; n = n + 1 }
WhileProgram(k, a) ==
    <<Let("i", IF a THEN Bin("subtraction", Num(0), Num(k)) ELSE Num(k)),
      Let("n", Num(0)),
      WhileStatementNode(
          PrintOf(Id("i")),
          Block(<<Let("i", Bin(IF a THEN "addition" ELSE "subtraction",
                               Id("i"), Num(1))),
                  Let("n", Bin("addition", Id("n"), Num(1)))>>))>>

\* x = 1; def f(x) { print(x); x = x + 5; print(x) }; f(2); [f(3);] x
ShadowStatements(b) ==
    <<Let("x", Num(1)),
      Def("f", <<"x">>, <<PrintOf(Id("x")),
                         Let("x", Bin("addition", Id("x"), Num(5))),
                         PrintOf(Id("x"))>>),
      CallOf(Id("f"), <<Num(2)>>)>>
    \o Opt(b, CallOf(Id("f"), <<Num(3)>>))
    \o <<Id("x")>>

\* a: def outer() { <the statements> }; outer()        b: f is called twice.
ShadowProgram(a, b) ==
    IF a THEN <<Def("outer", <<>>, ShadowStatements(b)), CallOf(Id("outer"), <<>>)>>
    ELSE ShadowStatements(b)

\* 1: x = 1; def f() { x }; def g(x) { f() }; g(2)
\* 2: def f() { y }; def g(y) { f() }; g(2)
\* 3: def mk() { x = 1; fun() { x } }; f = mk(); def g(x) { f() }; g(2)
ScopePrograms ==
    <<<<Let("x", Num(1)),
        Def("f", <<>>, <<Id("x")>>),
        Def("g", <<"x">>, <<CallOf(Id("f"), <<>>)>>),
        CallOf(Id("g"), <<Num(2)>>)>>,
      <<Def("f", <<>>, <<Id("y")>>),
        Def("g", <<"y">>, <<CallOf(Id("f"), <<>>)>>),
        CallOf(Id("g"), <<Num(2)>>)>>,
      <<Def("mk", <<>>, <<Let("x", Num(1)), Fun(<<>>, <<Id("x")>>)>>),
        Let("f", CallOf(Id("mk"), <<>>)),
        Def("g", <<"x">>, <<CallOf(Id("f"), <<>>)>>),
        CallOf(Id("g"), <<Num(2)>>)>>>>

ScopeProgram(k) == ScopePrograms[k]

\* [m = 5]; class C { [m = 0] }; p = C.new; q = C.new; q.m = 7; p.m = 10;
\* print(p.m); print(q.m); p.m        a: the top level binds m.
\*                                    b: the class body declares m.
MemberSetProgram(a, b) ==
    Opt(a, Let("m", Num(5)))
    \o <<ClassStatementNode("C", <<>>, Block(Opt(b, Let("m", Num(0))))),
         Let("p", Dot(Id("C"), "new")),
         Let("q", Dot(Id("C"), "new")),
         Bin("assign", Dot(Id("q"), "m"), Num(7)),
         Bin("assign", Dot(Id("p"), "m"), Num(10)),
         PrintOf(Dot(Id("p"), "m")),
         PrintOf(Dot(Id("q"), "m")),
         Dot(Id("p"), "m")>>

Statements(d) ==
    CASE d.fam = "evenodd" -> EvenOddProgram
      [] d.fam = "array" -> ArrayProgram
      [] d.fam = "main" -> MainProgram
      [] d.fam = "invalid" -> InvalidAssignProgram
      [] d.fam = "counter" -> CounterProgram(d.calls)
      [] d.fam = "assign" -> AssignProgram(d.a, d.b)
      [] d.fam = "def" -> DefProgram(d.a)
      [] d.fam = "field" -> FieldProgram(d.a)
      [] d.fam = "member" -> MemberProgram(d.k)
      [] d.fam = "chain" -> ChainProgram(d.k, d.a)
      [] d.fam = "negation" -> NegationProgram(d.a)
      [] d.fam = "memberset" -> MemberSetProgram(d.a, d.b)
      [] d.fam = "scope" -> ScopeProgram(d.k)
      [] d.fam = "shadow" -> ShadowProgram(d.a, d.b)
      [] d.fam = "while" -> WhileProgram(d.k, d.a)
      [] d.fam = "extends" -> ExtendsProgram(d.k, d.a)
      [] d.fam = "order" -> OrderProgram(d.k)
      [] d.fam = "index" -> IndexProgram(d.a, d.k)
      [] d.fam = "arity" -> ArityProgram(d.k)
      [] d.fam = "native" -> NativeArityProgram(d.k)
      [] d.fam = "unbound" -> UnboundProgram(d.k)
      [] d.fam = "divzero" -> DivZeroProgram(d.a, d.k)
      [] d.fam = "sum" -> SumProgram(d.k)
      [] d.fam = "equality" -> EqualityProgram(d.k)

Programs ==
    {Descriptor("counter", FALSE, FALSE, 0, calls) :
         calls \in SeqsUpTo({"c", "d"}, MaxCalls)}
    \cup {Descriptor("assign", a, b, 0, <<>>) : a \in BOOLEAN, b \in BOOLEAN}
    \cup {Descriptor(fam, a, FALSE, 0, <<>>) :
              fam \in {"def", "field", "negation"}, a \in BOOLEAN}
    \cup {Descriptor("member", FALSE, FALSE, k, <<>>) : k \in 1..Len(MemberNames)}
    \cup {Descriptor("chain", a, FALSE, k, <<>>) : k \in 1..MaxChain, a \in BOOLEAN}
    \cup {Descriptor(fam, FALSE, FALSE, 0, <<>>) :
              fam \in {"evenodd", "array", "main", "invalid", "rassoc"}}
    \cup {Descriptor("pair", FALSE, FALSE, k, <<>>) :
              k \in 1..(Len(BinaryTokens) * Len(BinaryTokens))}
    \cup {Descriptor("memberset", a, b, 0, <<>>) : a \in BOOLEAN, b \in BOOLEAN}
    \cup {Descriptor("scope", FALSE, FALSE, k, <<>>) : k \in 1..Len(ScopePrograms)}
    \cup {Descriptor("shadow", a, b, 0, <<>>) : a \in BOOLEAN, b \in BOOLEAN}
    \cup {Descriptor("while", a, FALSE, k, <<>>) : a \in BOOLEAN, k \in 0..MaxIterations}
    \cup {Descriptor("extends", a, FALSE, k, <<>>) : a \in BOOLEAN, k \in 1..Len(SuperBindings)}
    \cup {Descriptor("order", FALSE, FALSE, k, <<>>) : k \in 1..(Len(BinaryTokens) + 1)}
    \cup {Descriptor("index", a, FALSE, k, <<>>) :
              a \in BOOLEAN,
              k \in 1..((Len(ArrayElements) + 1) * Len(ArrayIndexes))}
    \cup {Descriptor("arity", FALSE, FALSE, k, <<>>) :
              k \in 1..((Len(ArityParameters) + 1) * (Len(ArityArguments) + 1))}
    \cup {Descriptor("native", FALSE, FALSE, k, <<>>) :
              k \in 1..(Len(ArityArguments) + 1)}
    \cup {Descriptor("unbound", FALSE, FALSE, k, <<>>) : k \in 1..Len(UnboundUses)}
    \cup {Descriptor("divzero", a, FALSE, k, <<>>) : a \in BOOLEAN, k \in 1..Len(Dividends)}
    \cup {Descriptor("sum", FALSE, FALSE, k, <<>>) : k \in 1..(SumOperands * SumOperands)}
    \cup {Descriptor("concat", a, FALSE, 0, <<>>) : a \in BOOLEAN}
    \cup {Descriptor("text", FALSE, FALSE, k, <<>>) : k \in 1..Len(Texts)}
    \cup {Descriptor("equality", FALSE, FALSE, k, <<>>) :
              k \in 1..(Len(EqualityOperands) * Len(EqualityOperands))}

-----------------------------------------------------------------------------
(* Interpreter::evaluate(program, env) as stone.cpp calls it: env is a     *)
(* fresh top-level frame in which the host has put print.                  *)

GlobalEnv == 1
PrintObject == 1

NoOp == [op |-> "none", frame |-> 0, name |-> "", value |-> Null]

\* A call of read() that returned no token, in the place of the token: the
\* stream asks the lexer for a token when the parser looks at it and not
\* before, so what the call did shows when the parser comes to this place.
FailedRead(st) == LexerToken(st, "", 0, 0, <<>>)

\* TokenStream::fillQueue: the calls of Lexer::read that the parser causes
\* through peek(0), up to the end-of-file token or the call that fails.
FillQueue ==
    /\ status = "lexing"
    /\ LET token == Read(m_source, m_pos, m_line)
       IN /\ m_pos' = token.pos
          /\ m_line' = token.line
          /\ tokens' = Append(tokens, IF token.st = "ok" THEN token.token
                                      ELSE FailedRead(token.st))
          /\ status' = IF token.st = "ok" /\ token.token.kind # "endOfFile"
                       THEN "lexing" ELSE "parsing"
    /\ UNCHANGED <<prog, stack, ret, result, data, lastOp, ast, m_source, stream>>

\* stone.cpp: the program is parsed, then evaluated in the top-level frame.
\* Where the parser stops at a failed read, the outcome is that read's.
ParseSource ==
    /\ status = "parsing"
    /\ LET program == ParseProgram(tokens)
           stopped == PeekToken(tokens, program.pos).kind
       IN /\ ast' = program.node
          /\ status' \in IF program.ok THEN {"running"}
                         ELSE IF stopped = "undefined" THEN UndefinedOutcomes
                         ELSE IF stopped = "outOfRange" THEN {"outOfRange"}
                         ELSE {"parseError"}
          /\ stack' = IF program.ok THEN <<Frame(program.node, GlobalEnv)>> ELSE <<>>
    /\ UNCHANGED <<prog, ret, result, data, lastOp, tokens, lexer, stream>>

Init ==
    /\ prog \in Programs
    /\ IF prog.fam \in TextFamilies
       THEN /\ m_source = Texts[prog.k]
            /\ tokens = <<>>
            /\ ast = NoNode
            /\ stack = <<>>
            /\ status = "lexing"
       ELSE IF prog.fam \in SourceFamilies
       THEN /\ m_source = <<>>
            /\ tokens = Source(prog)
            /\ ast = NoNode
            /\ stack = <<>>
            /\ status = "parsing"
       ELSE /\ m_source = <<>>
            /\ tokens = <<>>
            /\ ast = ProgramNode(Statements(prog))
            /\ stack = <<Frame(ast, GlobalEnv)>>
            /\ status = "running"
    /\ m_pos = 0
    /\ m_line = 1
    /\ m_queue = <<>>
    /\ lastPeek = NoPeek
    /\ ret = Null
    /\ result = Null
    /\ envs = <<[parent |-> 0,
                 table |-> TablePut(EmptyTable, "print", Ref(PrintObject))]>>
    /\ heap = <<NativeFunctionObject("print", <<"value">>)>>
    /\ output = <<>>
    /\ bodyLog = <<>>
    /\ lastOp = NoOp

Next ==
    \/ FillQueue
    \/ ParseSource
    \/ EvaluateProgram
    \/ EvaluateIf
    \/ EvaluateWhile
    \/ EvaluateCompound
    \/ EvaluateProcedure
    \/ EvaluateClass
    \/ EvaluateAddition
    \/ EvaluateArithmetic
    \/ EvaluateEquality
    \/ EvaluateAssignIdentifier
    \/ EvaluateAssignMember
    \/ EvaluateAssignIndex
    \/ EvaluateAssignInvalid
    \/ EvaluateUnary
    \/ EvaluateCall
    \/ StoneFunctionInvoke
    \/ NativeFunctionInvoke
    \/ EvaluateMemberAccess
    \/ ClassGetMember
    \/ EvaluateClosure
    \/ EvaluateArray
    \/ EvaluateArrayIndex
    \/ EvaluateIdentifier
    \/ EvaluateInteger
    \/ EvaluateString

Spec == Init /\ [][Next]_vars

-----------------------------------------------------------------------------
(* The Environment operations on their own: any forest of at most          *)
(* MaxFrames frames (a frame's parent is made before it), each binding a   *)
(* subset of EnvNames, and one operation applied to one of its frames.     *)

EnvNames == {"x", "y"}

OldValue == IntegerObject(0)
NewValue == IntegerObject(1)

EnvForests ==
    UNION {
        {[i \in 1..n |-> [parent |-> parents[i],
                          table |-> [m \in doms[i] |-> OldValue]]] :
             parents \in {ps \in [1..n -> 0..(n - 1)] : \A i \in 1..n : ps[i] < i},
             doms \in [1..n -> SUBSET EnvNames]} :
        n \in 1..MaxFrames}

EnvInit ==
    /\ envs \in EnvForests
    /\ lastOp = NoOp
    /\ prog = Descriptor("none", FALSE, FALSE, 0, <<>>)
    /\ stack = <<>>
    /\ ret = Null
    /\ status = "idle"
    /\ result = Null
    /\ heap = <<>>
    /\ output = <<>>
    /\ bodyLog = <<>>
    /\ tokens = <<>>
    /\ ast = NoNode
    /\ m_source = <<>>
    /\ m_pos = 0
    /\ m_line = 1
    /\ m_queue = <<>>
    /\ lastPeek = NoPeek

EnvIdle == status = "idle" /\ lastOp = NoOp

envRest == <<prog, stack, ret, status, result, heap, output, bodyLog, tokens, ast,
             lexer, stream>>

EnvSetOp ==
    /\ EnvIdle
    /\ \E f \in 1..Len(envs), name \in EnvNames :
           /\ envs' = EnvSet(envs, f, name, NewValue)
           /\ lastOp' = [op |-> "set", frame |-> f, name |-> name, value |-> NewValue]
    /\ UNCHANGED envRest

EnvPutOp ==
    /\ EnvIdle
    /\ \E f \in 1..Len(envs), name \in EnvNames :
           /\ envs' = EnvPut(envs, f, name, NewValue)
           /\ lastOp' = [op |-> "put", frame |-> f, name |-> name, value |-> NewValue]
    /\ UNCHANGED envRest

\* value is what get returned.
EnvGetOp ==
    /\ EnvIdle
    /\ \E f \in 1..Len(envs), name \in EnvNames, recursive \in BOOLEAN :
           lastOp' = [op |-> IF recursive THEN "get" ELSE "getLocal",
                      frame |-> f, name |-> name,
                      value |-> EnvGet(envs, f, name, recursive)]
    /\ UNCHANGED <<envs, envRest>>

EnvNext == EnvSetOp \/ EnvPutOp \/ EnvGetOp

EnvSpec == EnvInit /\ [][EnvNext]_vars

-----------------------------------------------------------------------------
(* Claims. *)

\* The frames from f up its parent chain, f first.
RECURSIVE ParentChain(_, _)
ParentChain(es, f) ==
    IF f = 0 THEN <<>> ELSE <<f>> \o ParentChain(es, es[f].parent)

\* es2 is es but for the one binding name |-> value in frame g.
OnlyBindingChanged(es, es2, g, name, value) ==
    /\ Len(es2) = Len(es)
    /\ \A h \in 1..Len(es) : h # g => es2[h] = es[h]
    /\ es2[g].parent = es[g].parent
    /\ DOMAIN es2[g].table = DOMAIN es[g].table \cup {name}
    /\ es2[g].table[name] = value
    /\ \A m \in DOMAIN es[g].table : m # name => es2[g].table[m] = es[g].table[m]

SetEffect(es, es2, f, name, value) ==
    LET chain == ParentChain(es, f)
        binders == {k \in 1..Len(chain) : name \in DOMAIN es[chain[k]].table}
        nearest == CHOOSE k \in binders : \A j \in binders : k <= j
    IN IF binders # {}
       THEN OnlyBindingChanged(es, es2, chain[nearest], name, value)
       ELSE OnlyBindingChanged(es, es2, f, name, value)

\* C1: Environment.set(name, v) on frame F rebinds name in the nearest frame
\* of F's parent chain (F first) that binds name and changes no other frame;
\* when no frame of the chain binds name it creates the binding in F and
\* leaves every other frame as it was.
C1_SetRebindsNearest ==
    [][lastOp'.op = "set" =>
          SetEffect(envs, envs', lastOp'.frame, lastOp'.name, lastOp'.value)]_vars

\* set on a frame that does not bind the name rebound it in the parent.
C1_Witness ==
    /\ lastOp.op = "set"
    /\ envs[lastOp.frame].parent # 0
    /\ lastOp.name \notin DOMAIN envs[lastOp.frame].table
    /\ lastOp.name \in DOMAIN envs[envs[lastOp.frame].parent].table
    /\ envs[envs[lastOp.frame].parent].table[lastOp.name] = NewValue

Global == envs[GlobalEnv].table

\* C2: a class body evaluated by C.new declares its fields in the instance:
\* after `[n = 5]; class C { n = 1 }; p = C.new` the instance p has member
\* n, and a top-level n bound before still holds 5.
C2_ClassBodyDeclaresFields ==
    (prog.fam = "field" /\ "p" \in DOMAIN Global) =>
        /\ "n" \in DOMAIN envs[heap[Global["p"].i].env].table
        /\ prog.a => Global["n"] = IntegerObject(5)

\* The number of the first k calls that call the closure the k-th one calls.
CallsOfSame(calls, k) == Cardinality({i \in 1..k : calls[i] = calls[k]})

\* C3: a closure made inside a call of counter() keeps reading and writing
\* that call's cnt after the call returned: the n-th call of one returned
\* closure yields n, and the closures of two calls of counter() count
\* independently, whatever the order of the calls.
C3_ClosureCounts ==
    prog.fam = "counter" =>
        /\ status \in {"running", "done"}
        /\ Len(output) <= Len(prog.calls)
        /\ \A k \in 1..Len(output) :
               output[k].value = IntegerObject(CallsOfSame(prog.calls, k))
        /\ status = "done" =>
               /\ Len(output) = Len(prog.calls)
               /\ prog.calls # <<>> =>
                      result = IntegerObject(CallsOfSame(prog.calls, Len(prog.calls)))

\* Five calls of one closure yield 5.
C3_Witness ==
    /\ status = "done"
    /\ prog.fam = "counter"
    /\ prog.calls = <<"c", "c", "c", "c", "c">>
    /\ result = IntegerObject(5)

BoundTo(e, name, value) ==
    name \in DOMAIN envs[e].table /\ envs[e].table[name] = value

Unbound(e, name) == name \notin DOMAIN envs[e].table

\* C4: `x = 2` in the body of inner (defined in outer, defined at top level)
\* rebinds x in the nearest enclosing scope that binds x: outer's call frame
\* when outer's parameter is x, else the top level when it binds x; the other
\* scope keeps what it had.  When neither binds x, x is made in the frame of
\* the call of inner only, and the top level never binds x.
\* Frame 2 is the frame of the call of outer, frame 3 that of inner.
C4_AssignInFunction ==
    prog.fam = "assign" =>
        /\ ~prog.a => Unbound(GlobalEnv, "x")
        /\ status # "running" =>
             /\ status = "done"
             /\ Len(envs) = 3
             /\ envs[2].parent = GlobalEnv /\ envs[3].parent = 2
             /\ IF prog.b
                THEN /\ BoundTo(2, "x", IntegerObject(2))
                     /\ prog.a => BoundTo(GlobalEnv, "x", IntegerObject(1))
                     /\ Unbound(3, "x")
                ELSE /\ Unbound(2, "x")
                     /\ IF prog.a
                        THEN BoundTo(GlobalEnv, "x", IntegerObject(2)) /\ Unbound(3, "x")
                        ELSE BoundTo(3, "x", IntegerObject(2))

\* The assignment in inner changed the top-level x, which outer's caller sees.
C4_Witness ==
    /\ prog.fam = "assign" /\ prog.a /\ ~prog.b
    /\ status = "done"
    /\ BoundTo(GlobalEnv, "x", IntegerObject(2))

\* C5: `def g() { 2 }` in the body of f binds g in the frame of that call
\* only: a top-level g defined before is still the function it was (it
\* yields 1), without one g is never bound at top level, and the value of
\* the def (here the value of f(), bound to h) is the new function itself.
C5_DefInFunctionIsLocal ==
    prog.fam = "def" =>
        /\ ~prog.a => Unbound(GlobalEnv, "g")
        /\ "h" \in DOMAIN Global =>
             /\ Global["h"].t = "ref"
             /\ heap[Global["h"].i].type = "function"
             /\ heap[Global["h"].i].body = Block(<<Num(2)>>)
             /\ BoundTo(heap[Global["h"].i].env, "g", Global["h"])
             /\ heap[Global["h"].i].env # GlobalEnv
             /\ prog.a =>
                  /\ "g" \in DOMAIN Global
                  /\ Global["g"] # Global["h"]
                  /\ heap[Global["g"].i].body = Block(<<Num(1)>>)
        /\ status # "running" =>
             /\ status = "done"
             /\ [k \in 1..Len(output) |-> output[k].value]
                    = IF prog.a THEN <<IntegerObject(1), IntegerObject(2)>>
                                ELSE <<IntegerObject(2)>>

\* After the call the outer g still yields 1 and the returned g yields 2.
C5_Witness ==
    /\ prog.fam = "def" /\ prog.a
    /\ status = "done"
    /\ Len(output) = 2
    /\ output[1].value = IntegerObject(1)
    /\ output[2].value = IntegerObject(2)

\* C6: for the chain C0 <- ... <- C(k-1), C(k-1).new runs the body of every
\* class once, C0 first, all in the one frame of the new instance; the
\* instance has the members of all bodies (fi = i of each class), and v and
\* m, defined by every class, are those of C(k-1).
C6_ChainBodiesInOrder ==
    (prog.fam = "chain" /\ "p" \in DOMAIN Global) =>
        LET e == heap[Global["p"].i].env
        IN /\ bodyLog = [i \in 1..prog.k |-> [class |-> ClassNames[i], env |-> e]]
           /\ \A i \in 1..prog.k : BoundTo(e, FieldNames[i], IntegerObject(i - 1))
           /\ BoundTo(e, "v", IntegerObject(prog.k - 1))
           /\ "m" \in DOMAIN envs[e].table
           /\ heap[envs[e].table["m"].i].body = Block(<<Num(prog.k - 1)>>)
           /\ status # "running" =>
                  status = "done" /\ result = IntegerObject(prog.k - 1)

\* The member read p.name of the activation on top finds no binding of name
\* in the instance's own frame.
MemberReadMisses ==
    /\ Running("MemberAccess")
    /\ Top.pc = 1
    /\ ret.t = "ref"
    /\ heap[ret.i].type = "instance"
    /\ Top.node.memberName \notin DOMAIN envs[heap[ret.i].env].table

\* C7: a member read p.name on an instance whose own frame does not bind
\* name raises EvaluateError, also when the class's defining environment
\* binds name; it never yields a binding of an enclosing scope.
C7_MemberReadOwnFrameOnly ==
    [][MemberReadMisses => status' = "error"]_vars

\* p.g raised, with g bound at top level, where class C was defined.
C7_Witness ==
    /\ prog.fam = "member" /\ MemberNames[prog.k] = "g"
    /\ "g" \in DOMAIN Global
    /\ status = "error"

-----------------------------------------------------------------------------
(* ParserSpec: Parser::parse applied to every `a op1 b op2 c`.              *)

ParserInit ==
    /\ tokens \in {PairExpression(k) :
                      k \in 1..(Len(BinaryTokens) * Len(BinaryTokens))}
    /\ ast = NoNode
    /\ status = "parsing"
    /\ prog = Descriptor("none", FALSE, FALSE, 0, <<>>)
    /\ stack = <<>>
    /\ ret = Null
    /\ result = Null
    /\ envs = <<[parent |-> 0,
                 table |-> TablePut(EmptyTable, "print", Ref(PrintObject))]>>
    /\ heap = <<NativeFunctionObject("print", <<"value">>)>>
    /\ output = <<>>
    /\ bodyLog = <<>>
    /\ lastOp = NoOp
    /\ m_source = <<>>
    /\ m_pos = 0
    /\ m_line = 1
    /\ m_queue = <<>>
    /\ lastPeek = NoPeek

ParserNext == ParseSource

ParserSpec == ParserInit /\ [][ParserNext]_vars

\* The precedence table as the specification states it.
TablePrecedence(kind) ==
    CASE kind \in {"star", "slash", "percent"} -> 5
      [] kind \in {"plus", "minus"} -> 4
      [] kind \in {"lesserThan", "lesserEqual", "greaterThan", "greaterEqual"} -> 3
      [] kind \in {"equal", "notEqual"} -> 2
      [] kind = "assign" -> 1

TableOperation(kind) ==
    CASE kind = "star" -> "multiplication"
      [] kind = "slash" -> "division"
      [] kind = "percent" -> "modulo"
      [] kind = "plus" -> "addition"
      [] kind = "minus" -> "subtraction"
      [] OTHER -> kind

\* (a op1 b) op2 c
GroupedLeft(op1, op2) ==
    Bin(TableOperation(op2), Bin(TableOperation(op1), Id("a"), Id("b")), Id("c"))

\* a op1 (b op2 c)
GroupedRight(op1, op2) ==
    Bin(TableOperation(op1), Id("a"), Bin(TableOperation(op2), Id("b"), Id("c")))

\* C8: for binary operators op1, op2 of different precedence, the parse of
\* `a op1 b op2 c` groups the operator of higher precedence first:
\* (a op1 b) op2 c when prec(op1) > prec(op2), a op1 (b op2 c) when
\* prec(op1) < prec(op2), for all twelve operators of the table.
C8_PrecedenceGrouping ==
    status # "parsing" =>
        LET op1 == tokens[2].kind
            op2 == tokens[4].kind
        IN /\ status = "running"
           /\ TablePrecedence(op1) > TablePrecedence(op2) =>
                  ast = ProgramNode(<<GroupedLeft(op1, op2)>>)
           /\ TablePrecedence(op1) < TablePrecedence(op2) =>
                  ast = ProgramNode(<<GroupedRight(op1, op2)>>)

\* a = b * c was parsed as a = (b * c).
C8_Witness ==
    /\ status = "running"
    /\ tokens[2].kind = "assign" /\ tokens[4].kind = "star"
    /\ ast = ProgramNode(<<Let("a", Bin("multiplication", Id("b"), Id("c")))>>)

\* C9: `a = b = print(3)` parses as a = (b = print(3)); evaluated, print
\* runs once, b is bound before a, both to the one value 3, which is the
\* value of the whole expression.  Two operators of equal precedence other
\* than `=` group to the left: `a op1 b op2 c` parses as (a op1 b) op2 c.
C9_Associativity ==
    /\ (prog.fam = "rassoc" /\ status # "parsing") =>
           /\ ast = ProgramNode(<<Let("a", Let("b", PrintOf(Num(3))))>>)
           /\ status \in {"running", "done"}
           /\ Len(output) <= 1
           /\ "b" \in DOMAIN Global =>
                  /\ Global["b"] = IntegerObject(3)
                  /\ Len(output) = 1 /\ output[1].value = IntegerObject(3)
           /\ "a" \in DOMAIN Global =>
                  BoundTo(GlobalEnv, "b", IntegerObject(3)) /\ Global["a"] = Global["b"]
           /\ status = "done" =>
                  "a" \in DOMAIN Global /\ result = IntegerObject(3)
    /\ (prog.fam = "pair" /\ status # "parsing") =>
           LET op1 == FirstOperator(prog.k)
               op2 == SecondOperator(prog.k)
           IN (/\ TablePrecedence(op1) = TablePrecedence(op2)
               /\ op1 # "assign") =>
                  /\ Len(ast.children) = 4
                  /\ ast.children[4] = GroupedLeft(op1, op2)

\* a = b = print(3) ended with a and b bound to 3 and one line printed.
C9_Witness ==
    /\ prog.fam = "rassoc" /\ status = "done"
    /\ BoundTo(GlobalEnv, "a", IntegerObject(3))
    /\ BoundTo(GlobalEnv, "b", IntegerObject(3))
    /\ Len(output) = 1

\* C10: the evaluation of `-e` with e an Integer v (-5, and -x after x = 3)
\* ends, and yields Integer(-v).
C10_NegationYieldsNegated ==
    (prog.fam = "negation" /\ status # "running") =>
        /\ status = "done"
        /\ result = IntegerObject(IF prog.a THEN -3 ELSE -5)

\* The asString views of the Integer and String operands.
OperandText == <<"1", "2", "1", "a">>

\* X == Y by the three-way rule: numerically for two Integers, by asString
\* view when either is a String, by identity otherwise.
RuleEqual(i, j) ==
    IF i <= 4 /\ j <= 4 THEN OperandText[i] = OperandText[j] ELSE i = j

\* A String against a function has no asString view to compare.
RuleApplies(i, j) == ~(i \in {3, 4} /\ j > 4) /\ ~(j \in {3, 4} /\ i > 4)

\* C11: for every pair of operands, X == Y yields 1 or 0 by the three-way
\* rule, and X != Y yields a value too, 1 exactly when X == Y yields 0; an
\* Integer against a String raises no error.
C11_EqualityComplement ==
    (/\ prog.fam = "equality"
     /\ RuleApplies(LeftOperand(prog.k), RightOperand(prog.k))
     /\ status # "running") =>
        /\ status = "done"
        /\ Global["e"] = IntegerObject(
               Truth(RuleEqual(LeftOperand(prog.k), RightOperand(prog.k))))
        /\ Global["n"] = IntegerObject(1 - Global["e"].i)

\* C12: X + Y is the Integer sum for two Integers and else the String
\* asString(X) followed by asString(Y); with + grouping to the left,
\* "a" + 1 + 2 is "a12" and 1 + 2 + "a" is "3a".
C12_AdditionSumsOrConcatenates ==
    /\ (prog.fam = "sum" /\ status # "running") =>
           LET i == ((prog.k - 1) \div SumOperands) + 1
               j == ((prog.k - 1) % SumOperands) + 1
           IN /\ status = "done"
              /\ result = IF i <= 2 /\ j <= 2 THEN IntegerObject(i + j)
                          ELSE StringObject(<<OperandText[i], OperandText[j]>>)
    /\ (prog.fam = "concat" /\ status \notin {"parsing", "running"}) =>
           /\ status = "done"
           /\ result = IF prog.a THEN StringObject(<<"a", "1", "2">>)
                       ELSE StringObject(<<"3", "a">>)

\* "a" + 1 + 2 ended with the String "a12".
C12_Witness ==
    /\ prog.fam = "concat" /\ prog.a
    /\ status = "done"
    /\ result = StringObject(<<"a", "1", "2">>)

\* C13: X / 0 and X % 0 raise EvaluateError for every Integer X; they yield
\* no value and the evaluation never enters an undefined state.
C13_DivisionByZeroRaises ==
    (prog.fam = "divzero" /\ status # "running") => status = "error"

\* C14: an identifier bound nowhere on the chain evaluates to the null
\* value, and its use as an operand of + - < == !=, as the condition of if
\* or while, as a callee, or as the operand of a member access or of an
\* indexing raises EvaluateError: no crash, no value.
C14_UnboundIdentifierRaises ==
    (prog.fam = "unbound" /\ status # "running") =>
        IF prog.k = 1 THEN status = "done" /\ result = Null
        ELSE status = "error"

\* C15: a call of f with n arguments for p parameters, n # p, raises
\* EvaluateError: the body never runs (nothing is printed, g stays 5) and
\* the top-level frame binds what it bound before.  With n = p the body runs in one new frame
\* whose parent is the frame f captured and which binds parameter i to
\* argument i, and the call yields the body's value.  The host's print
\* raises EvaluateError for any number of arguments but one.
C15_ArityChecked ==
    /\ prog.fam = "arity" =>
           LET p == ParameterCount(prog.k)
               n == ArgumentCount(prog.k)
           IN IF p # n
              THEN /\ output = <<>>
                   /\ "g" \in DOMAIN Global => Global["g"] = IntegerObject(5)
                   /\ status # "running" =>
                          status = "error" /\ DOMAIN Global = {"print", "g", "f"}
              ELSE status # "running" =>
                     /\ status = "done"
                     /\ Len(envs) = 2
                     /\ envs[2].parent = GlobalEnv
                     /\ DOMAIN envs[2].table = {ArityParameters[i] : i \in 1..p}
                     /\ \A i \in 1..p :
                            envs[2].table[ArityParameters[i]]
                                = IntegerObject(ArityArguments[i].value)
                     /\ Global["g"] = IntegerObject(6)
                     /\ Len(output) = 1
                     /\ result = IntegerObject(CASE p = 0 -> 0 [] OTHER -> 10)
    /\ (prog.fam = "native" /\ status # "running") =>
           IF prog.k - 1 = 1
           THEN status = "done" /\ Len(output) = 1 /\ result = IntegerObject(10)
           ELSE status = "error" /\ output = <<>>

\* f with two parameters was called with one argument and raised.
C15_Witness ==
    /\ prog.fam = "arity"
    /\ ParameterCount(prog.k) = 2 /\ ArgumentCount(prog.k) = 1
    /\ status = "error"
    /\ output = <<>>

\* C16: on an Array of length n, a[i] yields element i and a[i] = 99
\* replaces element i exactly when 0 <= i < n; for every other i, i = -1 and
\* i = n among them, both raise EvaluateError, and after a failed a[i] = 99
\* the array has the length and the elements it had.
C16_IndexBounds ==
    (prog.fam = "index" /\ status # "running") =>
        LET n == ArrayLength(prog.k)
            i == ArrayIndexOf(prog.k)
            before == [j \in 1..n |-> IntegerObject(ArrayElements[j].value)]
            elems == heap[Global["a"].i].elems
        IN IF 0 <= i /\ i < n
           THEN /\ status = "done"
                /\ IF prog.a
                   THEN result = before[i + 1] /\ elems = before
                   ELSE /\ result = IntegerObject(99)
                        /\ elems = [before EXCEPT ![i + 1] = IntegerObject(99)]
           ELSE status = "error" /\ elems = before

\* a[2] = 99 on an array of length 2 raised and left the array as it was.
C16_Witness ==
    /\ prog.fam = "index" /\ ~prog.a
    /\ ArrayLength(prog.k) = 2 /\ ArrayIndexOf(prog.k) = 2
    /\ status = "error"
    /\ Len(heap[Global["a"].i].elems) = 2

\* What the prints of the k-th program print when its sub-expressions run
\* in source order.
SourceOrder(k) ==
    CASE k < Len(BinaryTokens) -> <<1, 2>>
      [] k = Len(BinaryTokens) -> <<1, 2, 3>>
      [] OTHER -> <<1, 0>>

\* C17: sub-expressions run in source order: of every binary operator the
\* left operand before the right one, of a call the callee before the
\* arguments and these in order, of e[i] the operand e before the index i.
\* What has been printed is always a prefix of the source order.
C17_SourceOrder ==
    prog.fam = "order" =>
        /\ Len(output) <= Len(SourceOrder(prog.k))
        /\ \A i \in 1..Len(output) :
               output[i].value = IntegerObject(SourceOrder(prog.k)[i])

\* C18: the source text "three", quotes included, lexes to one string-literal
\* token whose payload is three, followed by end-of-file; it parses to the
\* String expression three, which evaluates to the String three.
C18_StringLiteralEndToEnd ==
    (prog.fam = "text" /\ m_source = StringLiteralText) =>
        /\ status \in {"lexing", "parsing", "running", "done"}
        /\ status # "lexing" =>
               /\ Len(tokens) = 2
               /\ tokens[1].kind = "string"
               /\ tokens[1].stringValue = <<"t", "h", "r", "e", "e">>
               /\ tokens[2].kind = "endOfFile"
        /\ status \in {"running", "done"} =>
               ast = ProgramNode(<<StringExpressionNode(<<"t", "h", "r", "e", "e">>)>>)
        /\ status = "done" => result = StringObject(<<"t", "h", "r", "e", "e">>)

\* C19: a = [2, 3, 4]; a[1] = "three"; a[0] + ":" + a[1] is accepted by the
\* lexer and the parser, and its evaluation ends with the String 2:three.
C19_ArraysEndToEnd ==
    (prog.fam = "text" /\ m_source = ArrayText) =>
        /\ status \in {"lexing", "parsing", "running", "done"}
        /\ status = "done" =>
               result = StringObject(<<"2", ":", "t", "h", "r", "e", "e">>)

-----------------------------------------------------------------------------
(* The lexer alone: read() is called again and again on a source text.     *)

\* Characters each of which the lexer accepts wherever it stands.
LegalChars ==
    SpaceChars \cup {"\n"} \cup LettersOrDigits
    \cup {Punctuators[i].text[1] : i \in {j \in 1..Len(Punctuators) :
                                              Len(Punctuators[j].text) = 1}}

SourceChars == {" ", "\n", "/", "a", "1", ";", "=", "<", ">", "!"}

\* Source texts of one word.
Words ==
    <<<<"i", "f">>,
      <<"e", "l", "s", "e">>,
      <<"w", "h", "i", "l", "e">>,
      <<"d", "e", "f">>,
      <<"f", "u", "n">>,
      <<"r", "e", "t", "u", "r", "n">>,
      <<"c", "l", "a", "s", "s">>,
      <<"e", "x", "t", "e", "n", "d", "s">>,
      <<"n", "e", "w">>,
      <<"i", "f", "f", "y">>,
      <<"c", "l", "a", "s", "s", "e", "s">>,
      <<"i">>,
      <<"_", "i", "f">>,
      <<"i", "f", "1">>,
      <<"n", "e", "w", "s">>,
      <<"I", "f">>>>

LexerSources ==
    SeqsUpTo(SourceChars, MaxSource)
    \cup {Texts[k] : k \in 1..Len(Texts)}
    \cup {Words[k] : k \in 1..Len(Words)}

LexerInit ==
    /\ m_source \in LexerSources
    /\ m_pos = 0
    /\ m_line = 1
    /\ m_queue = <<>>
    /\ lastPeek = NoPeek
    /\ tokens = <<>>
    /\ status = "lexing"
    /\ ast = NoNode
    /\ prog = Descriptor("none", FALSE, FALSE, 0, <<>>)
    /\ stack = <<>>
    /\ ret = Null
    /\ result = Null
    /\ envs = <<>>
    /\ heap = <<>>
    /\ output = <<>>
    /\ bodyLog = <<>>
    /\ lastOp = NoOp

\* One call of Lexer::read by the owner of the lexer; the token returned is
\* appended to tokens.
LexerRead ==
    /\ status = "lexing"
    /\ Len(tokens) <= Len(m_source) + MaxRepeat
    /\ LET token == Read(m_source, m_pos, m_line)
       IN /\ m_pos' = token.pos
          /\ m_line' = token.line
          /\ tokens' = IF token.st = "ok" THEN Append(tokens, token.token) ELSE tokens
          /\ status' \in CASE token.st = "ok" -> {"lexing"}
                           [] token.st = "error" -> {"parseError"}
                           [] token.st = "outOfRange" -> {"outOfRange"}
                           [] token.st = "undefined" -> UndefinedOutcomes
    /\ UNCHANGED <<prog, stack, ret, result, data, lastOp, ast, m_source, stream>>

LexerNext == LexerRead

LexerSpec == LexerInit /\ [][LexerNext]_vars

LegalSource == \A i \in 1..Len(m_source) : m_source[i] \in LegalChars

EndOfFileRead == tokens # <<>> /\ tokens[Len(tokens)].kind = "endOfFile"

\* C20: on a source text of legal characters every read() returns a token,
\* end-of-file is returned by read number size() + 1 at the latest, and a
\* read() after that returns end-of-file again and leaves m_pos and m_line as
\* they are; a last line that is a // comment without '\n' is no exception.
C20_ReadsReachEndOfFile ==
    /\ [](LegalSource =>
              /\ status = "lexing"
              /\ Len(tokens) > Len(m_source) => EndOfFileRead)
    /\ [][(LegalSource /\ EndOfFileRead) =>
              /\ tokens' = Append(tokens, tokens[Len(tokens)])
              /\ m_pos' = m_pos
              /\ m_line' = m_line
              /\ status' = status]_vars

\* The names the top-level frame binds before the declaration of C.
BoundBefore ==
    {"print"} \cup (IF prog.k = 1 THEN {} ELSE {"S"})
    \cup (IF prog.k = 6 THEN {"R"} ELSE {}) \cup (IF prog.a THEN {"f"} ELSE {})

\* C21: class C extends S { } raises EvaluateError when the chain of the
\* current frame does not bind S or binds it to a value that is no class;
\* then no frame binds C and the frames bind what they bound before.  When S
\* is a class, C is bound in the current frame (and in no other) to a class
\* whose superclass is the class S held at the declaration, also after S has
\* been assigned another value.
C21_ExtendsChecked ==
    prog.fam = "extends" =>
        IF prog.k # 5
        THEN /\ \A e \in 1..Len(envs) : ~Binds(envs[e], "C")
             /\ status # "running" =>
                    /\ status = "error"
                    /\ DOMAIN Global = BoundBefore
                    /\ \A e \in 2..Len(envs) :
                           DOMAIN envs[e].table \subseteq {"this"}
        ELSE status # "running" =>
                 /\ status = "done"
                 /\ result.t = "ref"
                 /\ heap[result.i].type = "class"
                 /\ heap[result.i].name = "C"
                 /\ heap[result.i].super # 0
                 /\ heap[heap[result.i].super].type = "class"
                 /\ heap[heap[result.i].super].name = "S"
                 /\ Global["S"] = IntegerObject(0)
                 /\ LET current == IF prog.a THEN Len(envs) ELSE GlobalEnv
                    IN /\ Binds(envs[current], "C")
                       /\ envs[current].table["C"] = result
                       /\ \A e \in 1..Len(envs) : Binds(envs[e], "C") => e = current

\* class C extends S raised while S was bound to an Integer.
C21_Witness ==
    /\ prog.fam = "extends" /\ prog.k = 2
    /\ status = "error"
    /\ \A e \in 1..Len(envs) : ~Binds(envs[e], "C")

\* C22: the loop that starts at i = k or i = -k and steps i towards 0
\* evaluates its condition once more than it runs its body, runs the body k
\* times (the condition is non-zero k times, negative values included) and
\* stops at the first condition that is 0; its value is the value of the
\* body in iteration k, and null when k = 0.  The even/odd loop over
\* i = 1..9 ends with even + odd = 9.
C22_WhileIterates ==
    /\ prog.fam = "while" =>
           LET n == IF "n" \in DOMAIN Global THEN Global["n"].i ELSE 0
           IN /\ n <= prog.k
              /\ Len(output) \in {n, n + 1}
              /\ status # "running" =>
                     /\ status = "done"
                     /\ n = prog.k
                     /\ Len(output) = prog.k + 1
                     /\ result = IF prog.k = 0 THEN Null ELSE IntegerObject(prog.k)
    /\ (prog.fam = "evenodd" /\ status # "running") =>
           status = "done" /\ result = IntegerObject(9)

\* The loop from i = -MaxIterations has run its body MaxIterations times.
C22_Witness ==
    /\ prog.fam = "while" /\ prog.a /\ prog.k = MaxIterations
    /\ status = "done"
    /\ Len(output) = MaxIterations + 1
    /\ result = IntegerObject(MaxIterations)

-----------------------------------------------------------------------------
(* The token stream alone: peek(k) and read() are called in any order on a *)
(* stream over a lexer; tokens holds what the calls of read() returned.     *)

StreamChars == {"a", "\n", "="}

StreamSources ==
    SeqsUpTo(StreamChars, MaxSource)
    \cup {Texts[k] : k \in 1..Len(Texts)}

TokenStreamInit ==
    /\ m_source \in StreamSources
    /\ m_pos = 0
    /\ m_line = 1
    /\ m_queue = <<>>
    /\ lastPeek = NoPeek
    /\ tokens = <<>>
    /\ status = "lexing"
    /\ ast = NoNode
    /\ prog = Descriptor("none", FALSE, FALSE, 0, <<>>)
    /\ stack = <<>>
    /\ ret = Null
    /\ result = Null
    /\ envs = <<>>
    /\ heap = <<>>
    /\ output = <<>>
    /\ bodyLog = <<>>
    /\ lastOp = NoOp

\* The status after a call that ended as st.
StatusAfter(st) ==
    CASE st = "ok" -> {"lexing"}
      [] st = "error" -> {"parseError"}
      [] st = "outOfRange" -> {"outOfRange"}
      [] st = "undefined" -> UndefinedOutcomes

\* TokenStream::peek(position)
TokenStreamPeek ==
    /\ status = "lexing"
    /\ \E position \in 0..MaxPeek :
           LET filled == FillQueueTo(m_source, m_queue, m_pos, m_line, position + 1)
           IN /\ m_queue' = filled.queue
              /\ m_pos' = filled.pos
              /\ m_line' = filled.line
              /\ status' \in StatusAfter(filled.st)
              /\ lastPeek' = IF filled.st = "ok"
                             THEN [position |-> position, reads |-> Len(tokens),
                                   token |-> filled.queue[position + 1]]
                             ELSE lastPeek
    /\ UNCHANGED <<prog, stack, ret, result, data, lastOp, ast, m_source, tokens>>

\* TokenStream::read
TokenStreamRead ==
    /\ status = "lexing"
    /\ Len(tokens) <= Len(m_source) + MaxRepeat
    /\ LET filled == FillQueueTo(m_source, m_queue, m_pos, m_line, 1)
       IN /\ m_pos' = filled.pos
          /\ m_line' = filled.line
          /\ status' \in StatusAfter(filled.st)
          /\ IF filled.st = "ok"
             THEN /\ tokens' = Append(tokens, filled.queue[1])
                  /\ m_queue' = PopFront(filled.queue)
             ELSE /\ tokens' = tokens
                  /\ m_queue' = filled.queue
    /\ UNCHANGED <<prog, stack, ret, result, data, lastOp, ast, m_source, lastPeek>>

TokenStreamNext == TokenStreamPeek \/ TokenStreamRead

TokenStreamSpec == TokenStreamInit /\ [][TokenStreamNext]_vars

\* What n calls of read() on a lexer at pos, line return, one after another;
\* a call that returns no token ends the sequence with FailedRead.
RECURSIVE LexerTokens(_, _, _, _)
LexerTokens(source, pos, line, n) ==
    IF n = 0 THEN <<>>
    ELSE LET token == Read(source, pos, line)
         IN IF token.st # "ok" THEN <<FailedRead(token.st)>>
            ELSE <<token.token>> \o LexerTokens(source, token.pos, token.line, n - 1)

\* The lexer returns a token at every call up to end-of-file.
LexesWithoutError(source) ==
    LET all == LexerTokens(source, 0, 1, Len(source) + 1)
    IN all[Len(all)].kind = "endOfFile"

\* C23: on a source that lexes without error, whatever the order of the
\* calls of peek and read: the tokens read() has returned are the first
\* tokens of the lexer in its order, the queue holds the tokens that follow
\* them, and the last peek(k), made after r calls of read(), returned token
\* r + k + 1 of the lexer, the one the (k+1)-th read() after it returns.
C23_StreamIsLexerSequence ==
    LexesWithoutError(m_source) =>
        LET all == LexerTokens(m_source, 0, 1,
                               Len(tokens) + Len(m_queue) + MaxPeek + 1)
        IN /\ status = "lexing"
           /\ tokens = SubSeq(all, 1, Len(tokens))
           /\ m_queue = SubSeq(all, Len(tokens) + 1, Len(tokens) + Len(m_queue))
           /\ lastPeek # NoPeek =>
                  /\ lastPeek.token = all[lastPeek.reads + lastPeek.position + 1]
                  /\ Len(tokens) > lastPeek.reads + lastPeek.position =>
                         tokens[lastPeek.reads + lastPeek.position + 1] = lastPeek.token

\* peek(1) was called on x = ..., then read() twice: the second gave what
\* peek had given.
C23_Witness ==
    /\ LexesWithoutError(m_source)
    /\ lastPeek.position = 1
    /\ lastPeek.reads = 0
    /\ Len(tokens) >= 2
    /\ tokens[1].kind # tokens[2].kind
    /\ tokens[2] = lastPeek.token

\* The number of '\n' among the first n characters of source.
RECURSIVE Newlines(_, _)
Newlines(source, n) ==
    IF n = 0 THEN 0
    ELSE Newlines(source, n - 1) + (IF source[n] = "\n" THEN 1 ELSE 0)

\* The number of characters of the source a token stands for.
Width(token) ==
    CASE token.kind = "endOfFile" -> 0
      [] token.kind = "endOfLine" -> 1
      [] OTHER -> Len(token.text)

\* C24: m_line is 1 plus the number of '\n' consumed so far, and the token a
\* read() returns carries 1 plus the number of '\n' before its first
\* character: an end-of-line token the line its '\n' ends, the end-of-file
\* token the last line.
C24_LineNumbers ==
    /\ [](status = "lexing" => m_line = 1 + Newlines(m_source, m_pos))
    /\ [][Len(tokens') > Len(tokens) =>
              LET token == tokens'[Len(tokens')]
              IN /\ token.lineNumber
                        = 1 + Newlines(m_source, m_pos' - Width(token))
                 /\ token.kind = "endOfLine" =>
                        token.lineNumber = m_line /\ m_line' = m_line + 1
                 /\ token.kind # "endOfLine" =>
                        token.lineNumber = m_line /\ m_line' = m_line]_vars

\* A second end-of-line token has been read: it is on line 2 and m_line is 3.
C24_Witness ==
    /\ status = "lexing"
    /\ tokens # <<>>
    /\ tokens[Len(tokens)].kind = "endOfLine"
    /\ tokens[Len(tokens)].lineNumber = 2
    /\ m_line = 3

\* The punctuators of two characters: == != <= >=.
LongPunctuators ==
    {Punctuators[i] : i \in {j \in 1..Len(Punctuators) : Len(Punctuators[j].text) = 2}}

\* C25: when the text after the blanks starts with == != <= or >=, read()
\* returns that token and consumes both characters; it returns = < or > only
\* when the next character is not the = that would complete a longer one.
C25_LongestMatch ==
    [][status = "lexing" =>
           LET start == ScanWhile(m_source, m_pos, SpaceChars)
               token == tokens'[Len(tokens')]
           IN /\ \A p \in LongPunctuators :
                     StartsWith(m_source, start, p.text) =>
                         /\ Len(tokens') = Len(tokens) + 1
                         /\ token.kind = p.kind
                         /\ m_pos' = start + 2
              /\ (/\ Len(tokens') = Len(tokens) + 1
                  /\ token.kind \in {"assign", "lesserThan", "greaterThan"}) =>
                     /\ m_pos' = start + 1
                     /\ CharAt(m_source, start + 1) # "="]_vars

\* <= has been read as one token.
C25_Witness ==
    /\ tokens # <<>>
    /\ tokens[Len(tokens)].kind = "lesserEqual"
    /\ m_pos >= 2
    /\ m_source[m_pos - 1] = "<" /\ m_source[m_pos] = "="

\* The nine reserved words.
ReservedWords ==
    {"if", "else", "while", "def", "fun", "return", "class", "extends", "new"}

\* C26: a source text that is one word lexes to one token of the whole word
\* and then end-of-file, and every token of a reserved word has the keyword
\* kind of that word while no identifier token is a reserved word: iffy and
\* classes are identifiers, class, extends and new are not.
C26_ReservedWords ==
    /\ \A i \in 1..Len(tokens) :
           /\ tokens[i].kind = "identifier" => tokens[i].text \notin ReservedWords
           /\ tokens[i].text \in ReservedWords =>
                  tokens[i].kind = "keyword_" \o tokens[i].text
    /\ (tokens # <<>> /\ \E k \in 1..Len(Words) : m_source = Words[k]) =>
           /\ tokens[1].text = Substr(m_source, 0, Len(m_source))
           /\ tokens[1].kind \in {"identifier", "keyword_" \o tokens[1].text}
           /\ Len(tokens) > 1 => tokens[2].kind = "endOfFile"

-----------------------------------------------------------------------------
(* StatementSpec: Parser::parse applied to every sequence of the tokens    *)
(* a ; end-of-line { } of up to MaxTokens tokens.                           *)

StatementTokens ==
    {IdentifierToken("a"), Punctuator("semicolon"), Token("endOfLine", "[EOL]"),
     Punctuator("leftBrace"), Punctuator("rightBrace")}

StatementInit ==
    /\ tokens \in SeqsUpTo(StatementTokens, MaxTokens)
    /\ ast = NoNode
    /\ status = "parsing"
    /\ prog = Descriptor("none", FALSE, FALSE, 0, <<>>)
    /\ stack = <<>>
    /\ ret = Null
    /\ result = Null
    /\ envs = <<[parent |-> 0,
                 table |-> TablePut(EmptyTable, "print", Ref(PrintObject))]>>
    /\ heap = <<NativeFunctionObject("print", <<"value">>)>>
    /\ output = <<>>
    /\ bodyLog = <<>>
    /\ lastOp = NoOp
    /\ m_source = <<>>
    /\ m_pos = 0
    /\ m_line = 1
    /\ m_queue = <<>>
    /\ lastPeek = NoPeek

StatementNext == ParseSource

StatementSpec == StatementInit /\ [][StatementNext]_vars

\* No Program or Compound node in node has a null child.
RECURSIVE ChildrenAreStatements(_)
ChildrenAreStatements(node) ==
    node.kind \in {"Program", "Compound"} =>
        \A i \in 1..Len(node.children) :
            /\ node.children[i] # NoNode
            /\ ChildrenAreStatements(node.children[i])

\* The number of nodes below node.
RECURSIVE NodeCount(_, _)
NodeCount(node, i) ==
    IF node.kind \notin {"Program", "Compound"} \/ i > Len(node.children) THEN 0
    ELSE 1 + NodeCount(node.children[i], 1) + NodeCount(node, i + 1)

\* The number of tokens of toks whose kind is in kinds.
CountKinds(toks, kinds) ==
    Cardinality({i \in 1..Len(toks) : toks[i].kind \in kinds})

\* Token i ends a statement and token i + 1 starts one.
Adjacent(toks, i) ==
    /\ toks[i].kind \in {"identifier", "rightBrace"}
    /\ toks[i + 1].kind \in {"identifier", "leftBrace"}

\* C27: in the tree of an accepted token sequence every child of a Program
\* or Compound node is a statement; the tree has one node for each a and one
\* for each {, so separators, however many in a row, add no child; { } is a
\* Compound without children; a sequence in which a statement follows a
\* statement with no ; or end-of-line between them is rejected.
C27_NoNullStatements ==
    status # "parsing" =>
        /\ status \in {"running", "parseError"}
        /\ status = "running" =>
               /\ ast.kind = "Program"
               /\ ChildrenAreStatements(ast)
               /\ NodeCount(ast, 1)
                      = CountKinds(tokens, {"identifier", "leftBrace"})
        /\ tokens = <<Punctuator("leftBrace"), Punctuator("rightBrace")>> =>
               /\ status = "running"
               /\ ast = ProgramNode(<<CompoundStatementNode(<<>>)>>)
        /\ (\E i \in 1..(Len(tokens) - 1) : Adjacent(tokens, i)) =>
               status = "parseError"

\* ; ; a ; ; was accepted: its Program has the one child a.
C27_Witness ==
    /\ status = "running"
    /\ Len(tokens) = 5
    /\ tokens[3].kind = "identifier"
    /\ \A i \in {1, 2, 4, 5} : tokens[i].kind \in Separators
    /\ Len(ast.children) = 1

\* The frame in which the shadow programs bind the outer x.
OuterFrame == IF prog.a THEN 2 ELSE GlobalEnv

\* C28: f(x) called with 2 (and again with 3) while the enclosing scope binds
\* x to 1: the body reads the argument, x = x + 5 in the body changes the x
\* of the frame of that call, and the enclosing x is 1 all along and after
\* the call has returned.
C28_ParametersShadow ==
    prog.fam = "shadow" =>
        /\ (Len(envs) >= OuterFrame /\ Binds(envs[OuterFrame], "x")) =>
               envs[OuterFrame].table["x"] = IntegerObject(1)
        /\ \A i \in 1..Len(output) :
               output[i].value = IntegerObject(<<2, 7, 3, 8>>[i])
        /\ status # "running" =>
               /\ status = "done"
               /\ result = IntegerObject(1)
               /\ Len(output) = IF prog.b THEN 4 ELSE 2
               /\ Len(envs) = OuterFrame + (IF prog.b THEN 2 ELSE 1)
               /\ \A e \in (OuterFrame + 1)..Len(envs) :
                      /\ envs[e].parent = OuterFrame
                      /\ envs[e].table
                             = TablePut(EmptyTable, "x",
                                        IntegerObject(e - OuterFrame + 6))

\* Inside outer, f(2) and f(3) have returned and x is read as 1.
C28_Witness ==
    /\ prog.fam = "shadow" /\ prog.a /\ prog.b
    /\ status = "done"
    /\ result = IntegerObject(1)
    /\ Len(output) = 4

\* C29: f reads the free variable x (or y) while it is called from g, whose
\* parameter has that name and holds 2.  f sees the x of the frame it was
\* defined in, 1, at top level and in the frame of mk alike; a y bound only
\* in the frame of the call of g is unbound in f, whose value is then null.
\* Every frame of a call has the frame its function captured as parent.
C29_LexicalScoping ==
    prog.fam = "scope" =>
        /\ \A e \in 2..Len(envs) :
               \E h \in 1..Len(heap) :
                   heap[h].type = "function" /\ heap[h].env = envs[e].parent
        /\ status # "running" =>
               /\ status = "done"
               /\ result = IF prog.k = 2 THEN Null ELSE IntegerObject(1)

\* g(2) has returned what f read: the 1 of the top level, not the 2 of g.
C29_Witness ==
    /\ prog.fam = "scope" /\ prog.k = 1
    /\ status = "done"
    /\ result = IntegerObject(1)
    /\ \E e \in 2..Len(envs) : BoundTo(e, "x", IntegerObject(2))

\* The frame of the instance the top level binds name to, 0 before that.
FrameOf(name) ==
    IF name \in DOMAIN Global /\ Global[name].t = "ref" THEN heap[Global[name].i].env
    ELSE 0

\* C30: q.m = 7 and p.m = 10 on two instances of C, with m declared by the
\* class body or not and with the top level binding m to 5 or not: each
\* assignment binds m in the frame of its own instance, so p.m reads 10 and
\* q.m reads 7; the top level never gets the 7 or the 10, has no m where it
\* had none, and where the class body declares no m its m is 5 all along.
C30_MemberAssignOwnFrame ==
    prog.fam = "memberset" =>
        /\ "m" \in DOMAIN Global =>
               /\ prog.a
               /\ Global["m"] \notin {IntegerObject(7), IntegerObject(10)}
               /\ ~prog.b => Global["m"] = IntegerObject(5)
        /\ (FrameOf("q") # 0 /\ Binds(envs[FrameOf("q")], "m")) =>
               envs[FrameOf("q")].table["m"] \in {IntegerObject(0), IntegerObject(7)}
        /\ (FrameOf("p") # 0 /\ Binds(envs[FrameOf("p")], "m")) =>
               envs[FrameOf("p")].table["m"] \in {IntegerObject(0), IntegerObject(10)}
        /\ status # "running" =>
               /\ status = "done"
               /\ result = IntegerObject(10)
               /\ Len(output) = 2
               /\ output[1].value = IntegerObject(10)
               /\ output[2].value = IntegerObject(7)
               /\ FrameOf("p") # FrameOf("q")
               /\ BoundTo(FrameOf("p"), "m", IntegerObject(10))
               /\ BoundTo(FrameOf("q"), "m", IntegerObject(7))

\* With m = 5 at top level and no m in the class body, p.m is 10, q.m is 7
\* and m is 5.
C30_Witness ==
    /\ prog.fam = "memberset" /\ prog.a /\ ~prog.b
    /\ status = "done"
    /\ Global["m"] = IntegerObject(5)
    /\ BoundTo(FrameOf("p"), "m", IntegerObject(10))
    /\ BoundTo(FrameOf("q"), "m", IntegerObject(7))

=============================================================================
